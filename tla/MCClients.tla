----------------------------- MODULE MCClients -----------------------------
(* What clients of the proxy get, one part at a time: a streamed answer      *)
(* ("stream"), a translated conversation ("turns"), the panels of operator,  *)
(* resellers and clients ("panel"), and the session that keeps a             *)
(* conversation with one credential ("session").                             *)
EXTENDS AnthropicStream, Translator, PanelAccess, SessionTracker

TwoTools == {0, 1}
AnyForced == {"none", "call", "write"}

\* "LongName" is too long for OpenAI.
Many == <<"Task", "Bash", "LongName", "Write", "Server">>
Few == <<"LongName", "Server">>
Set(vllm, native, force, tools, system) ==
  [vllm |-> vllm, native |-> native, force |-> force, tools |-> tools, system |-> system]
Backends ==
  {Set(TRUE, TRUE, FALSE, Many, 0), Set(TRUE, TRUE, TRUE, Many, 2),
   Set(TRUE, FALSE, TRUE, Many, 0), Set(TRUE, FALSE, FALSE, Many, 2),
   Set(TRUE, FALSE, FALSE, <<"Task">>, 0), Set(TRUE, FALSE, FALSE, <<>>, 0),
   Set(FALSE, FALSE, TRUE, Few, 0)}
Short(t) == IF t = "LongName" THEN "Long" ELSE t
First(t) == CASE t = "Write" -> 2 [] t = "Bash" -> 9 [] t = "Task" -> 11
              [] OTHER -> 100

CONSTANTS b1, u1, u2, e1, e2

OneBrowser == {b1}
TwoUsers == {u1, u2}
TwoEmails == {e1, e2}

\* A conversation known by its text, and one that names itself.
Asks(c, named, tools, opening, text) ==
  [of |-> c, named |-> named, tools |-> tools, opening |-> opening, text |-> text]
Talks ==
  {Asks("a", <<>>, <<>>, <<"a opens">>, <<"a says">>),
   Asks("a", <<>>, <<"a calls">>, <<>>, <<"a says">>),
   Asks("b", <<"b", "c">>, <<>>, <<>>, <<>>),
   Asks("b", <<"b">>, <<>>, <<>>, <<"b says">>),
   Asks("d", <<>>, <<>>, <<>>, <<>>)}

VARIABLE part

StreamRests == Init /\ forced = "none"
TurnsRest == TrInit /\ ~settings.vllm

ClientsInit ==
  /\ PanelInit /\ SessionInit
  /\ \/ part = "stream" /\ Init /\ TurnsRest
     \/ part = "turns" /\ StreamRests /\ TrInit
     \/ part \in {"panel", "session"} /\ StreamRests /\ TurnsRest
ClientsNext ==
  /\ UNCHANGED part
  /\ \/ part = "stream" /\ Next /\ UNCHANGED <<trVars, panelVars, sessionVars>>
     \/ part = "turns" /\ TrNext /\ UNCHANGED <<vars, panelVars, sessionVars>>
     \/ part = "panel" /\ PanelNext /\ UNCHANGED <<vars, trVars, sessionVars>>
     \/ part = "session" /\ SessionNext /\ UNCHANGED <<vars, trVars, panelVars>>
ClientsSpec ==
  ClientsInit /\ [][ClientsNext]_<<part, vars, trVars, panelVars, sessionVars>>
=============================================================================
