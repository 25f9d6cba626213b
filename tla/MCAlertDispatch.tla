---------------------------- MODULE MCAlertDispatch ----------------------------
(* Configurations of AlertDispatch: every channel, each kind of webhook URL,   *)
(* and a minimum severity above the lowest.                                    *)
EXTENDS AlertDispatch

Config(minimum, slackUrl, webhookUrl) ==
  [enabled |-> TRUE, slack |-> TRUE, webhook |-> TRUE, console |-> TRUE, minimum |-> minimum,
   url |-> [slack |-> slackUrl, webhook |-> webhookUrl]]
Everything == Config("info", "valid", "valid")
Defaults == Config("info", "unset", "unset")
BadUrl == Config("info", "malformed", "valid")
Strict == Config("warning", "valid", "unset")
SlackOnly == [Strict EXCEPT !.webhook = FALSE, !.console = FALSE]
Off == [Everything EXCEPT !.enabled = FALSE]

AllConfigs == {Everything, Defaults, BadUrl, Strict, SlackOnly, Off}
===============================================================================
