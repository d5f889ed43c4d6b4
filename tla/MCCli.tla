------------------------------- MODULE MCCli -------------------------------
(***************************************************************************)
(* Instances of Cli for TLC: two invocations that edit, and one that sends *)
(* a request; or three that may do either.  Text, which has no state, is   *)
(* evaluated with them.                                                    *)
(***************************************************************************)
EXTENDS Cli, Text, TLC

CONSTANTS i1, i2, i3

Does(do, what) == [do |-> do, what |-> what]
AgentEdits == {Does("add", "new"), Does("remove", 1), Does("output", "terminal")}
OtherEdits == {Does("add", "new"), Does("reset", None), Does("rm", "phones")}
GroupEdits == {Does("set", "tablets"), Does("set", "watches"), Does("rm", "phones")}

Asks(kind, to, wait, timeout, long, raw) ==
    Does("send", [kind |-> kind, to |-> to, wait |-> wait, timeout |-> timeout,
                  long |-> long, raw |-> raw])
Requests ==
    {Asks("speak", <<"here", "cold", "off">>, FALSE, None, FALSE, TRUE),
     Asks("speak", <<"warm", "off">>, TRUE, 600, TRUE, FALSE),
     Asks("leave", <<"off">>, FALSE, None, FALSE, FALSE)}
\* More of those that last longer than the tool is patient: a device that is off
\* while another waits less long than a dial lasts; one that has to be woken first;
\* more time than the tool will give.
Beyond ==
    {Asks("speak", <<"off">>, TRUE, 30, FALSE, FALSE),
     Asks("speak", <<"cold">>, TRUE, 60, TRUE, FALSE),
     Asks("speak", <<"here">>, TRUE, 7200, TRUE, FALSE)}

OneSends == i1 :> AgentEdits @@ i2 :> OtherEdits @@ i3 :> Requests
AllSend == [i \in {i1, i2, i3} |-> Requests \cup Beyond]
\* What one after another claims to be kept whatever they do, is not.
Claimants ==
    [i \in {i1, i2, i3} |->
        {Does("add", "new"), Does("output", "terminal"), Does("set", "tablets"), Does("rm", "phones"),
         Asks("speak", <<"here">>, FALSE, None, TRUE, TRUE)}]
=============================================================================
