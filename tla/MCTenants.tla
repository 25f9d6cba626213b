------------------------------- MODULE MCTenants -------------------------------
(***************************************************************************)
(* Tenants for TLC.  Every call any route or script makes is there once or  *)
(* twice: signups and joins that want the same address, one of them that of *)
(* an account there is; refreshes and logouts of the first refresh token    *)
(* and of those that replace it; a tenant suspended, activated, deleted and *)
(* upgraded to a schema of its own while two inbox files of one name and a  *)
(* third are ingested and the tenant warehouse is rebuilt.                  *)
(***************************************************************************)
EXTENDS Tenants, RateLimit, TLC

CONSTANTS t0, u0, k0, i0

AllRequests == Permutations(Requests)

\* Files a/day1.json and b/day1.json have one stem.
InboxStem == [f \in {"a/day1", "b/day1", "day2"} |-> IF f = "day2" THEN "day2" ELSE "day1"]

AllCalls ==
  [op : {"signup"}, email : {"new", "known"}, weak : {FALSE}]
  \cup [op : {"signup"}, email : {"new"}, weak : {TRUE}]
  \cup [op : {"join"}, email : {"new"}, weak : {FALSE}, tenant : {t0}, invite : {i0, None}]
  \cup [op : {"join"}, email : {"new"}, weak : {FALSE}, tenant : {None}, invite : {i0}]
  \cup [op : {"login"}, email : {"new"}, weak : {FALSE}]
  \cup [op : {"login"}, email : {"known"}, weak : {TRUE}]
  \cup [op : {"refresh", "logout"}, token : {k0} \cup Requests]
  \cup [op : {"status"}, tenant : {t0}, to : {"active", "suspended"}]
  \cup [op : {"delete"}, tenant : {t0}, to : {"deleted"}, hard : {TRUE}]
  \cup [op : {"delete"}, tenant : {None}, to : {"deleted"}, hard : {FALSE}]
  \cup [op : {"upgrade"}, tenant : {t0}]
  \cup [op : {"ingest"}, tenant : {t0}, files : {<<"a/day1", "b/day1">>, <<"day2">>, <<>>}]
  \cup [op : {"rebuild"}]

-----------------------------------------------------------------------------
(* The rate limiter against its definition, for up to five requests.         *)

Arrivals == {times \in UNION {[1..n -> 0..8] : n \in 1..5} :
               \A i, j \in DOMAIN times : i < j => times[i] =< times[j]}

\* One number per client stands for every period: a request is refused exactly if
\* with it some period, wherever it begins, would have had more requests than one
\* burst and what the rate adds in its length.  So a client loses nothing by asking in
\* vain, and saves up for no more than a burst.
ASSUME OnlyExcessIsRefused == \A times \in Arrivals :
  LET allowed == Allowed(times)
      WithIt(n, i) == Cardinality({k \in allowed : i =< k /\ k < n}) + 1
  IN \A n \in DOMAIN times :
       n \in allowed <=> \A i \in allowed :
         i < n => WithIt(n, i) * Token =< Capacity + (times[n] - times[i]) * PerMinute
================================================================================
