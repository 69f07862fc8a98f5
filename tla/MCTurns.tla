------------------------------ MODULE MCTurns ------------------------------
(* The turns of a Codex session; a Claude session and a Codex session beside *)
(* other processes; a Claude session that moves between the SDK and a        *)
(* terminal of the broker; such a terminal, and the table of them; and the   *)
(* questions that engines ask the user.                                      *)
(* They share no state here, so a behaviour is one of a single part.         *)
EXTENDS TurnLifecycle, ClaudeWatch, ClaudeHandover, CodexWatch, BrokerTui,
        BrokerSessions, UserQuestions, TLC

CONSTANTS q1, q2, a1, c1, c2, w1, w2, t1, t2, s1, s2, l1, l2

VARIABLE part

WatchBound(rs, cs, ms, fs) ==
    [rows |-> rs, clis |-> cs, commands |-> ms, faults |-> fs]

WatchCases == {WatchBound(2, 1, 1, 0), WatchBound(1, 1, 1, 1), WatchBound(1, 1, 2, 0),
               WatchBound(0, 1, 2, 1)}

HandoverBound(tuis, restarts, typed, queries, faults) ==
    [tuis |-> tuis, restarts |-> restarts, typed |-> typed, queries |-> queries,
     faults |-> faults]

HandoverCases == {HandoverBound(2, 1, 0, 1, 0), HandoverBound(1, 0, 1, 1, 1),
                  HandoverBound(1, 1, 0, 1, 1), HandoverBound(1, 0, 0, 2, 1)}

CodexBound(ps, ts, autos, ms, fs) ==
    [procs |-> ps, turns |-> ts, alone |-> autos, commands |-> ms, faults |-> fs]

CodexCases == {CodexBound({w1}, 1, 0, 1, 1), CodexBound({w1}, 1, 1, 0, 0),
               CodexBound({w1, w2}, 0, 0, 1, 0), CodexBound({w1}, 0, 1, 1, 0),
               CodexBound({w1}, 0, 0, 2, 0)}

TuiBound(ks, ps, cs, es) == [keys |-> ks, prompts |-> ps, controls |-> cs, expiries |-> es]

TuiCases == {TuiBound(2, 1, 0, 0), TuiBound(1, 0, 1, 1), TuiBound(0, 1, 1, 1),
             TuiBound(0, 0, 2, 0)}

BrokerBound(os, as, cs, ms) == [outputs |-> os, attaches |-> as, creates |-> cs, modes |-> ms]

BrokerCases == {BrokerBound(5, 3, 1, 0), BrokerBound(2, 2, 2, 0), BrokerBound(1, 1, 3, 0),
                BrokerBound(0, 0, 4, 2)}

AskBound(as, ns, rs, os) == [asked |-> as, answers |-> ns, restarts |-> rs, others |-> os]

AskCases == {AskBound(2, 1, 1, 1), AskBound(2, 2, 1, 0), AskBound(2, 2, 0, 1)}

\* Only the bounds of the part that runs are chosen.
PartsInit ==
    /\ part \in {"turns", "watch", "handover", "codex", "tui", "broker", "questions"}
    /\ TurnInit /\ WatchInit /\ HandoverInit /\ CodexWatchInit
    /\ TuiInit /\ BrokerInit /\ QuestionsInit
    /\ part # "watch" => watchLeft = (CHOOSE b \in WatchCases : TRUE) /\ rows = <<>>
    /\ part # "handover" => handoverLeft = CHOOSE b \in HandoverCases : TRUE
    /\ part # "codex" => codexLeft = (CHOOSE b \in CodexCases : TRUE)
    /\ part # "codex" \/ codexLeft.procs = {w1, w2} => rollout = <<>>
    /\ part # "tui" => tuiLeft = CHOOSE b \in TuiCases : TRUE
    /\ part # "broker" => brokerLeft = CHOOSE b \in BrokerCases : TRUE
    /\ part # "questions" => link.claude /\ askLeft = CHOOSE b \in AskCases : TRUE

\* Of the parts but the one named nothing changes.
Others(name) ==
    /\ UNCHANGED part /\ part = name
    /\ name # "turns" => UNCHANGED turnVars
    /\ name # "watch" => UNCHANGED watchVars
    /\ name # "handover" => UNCHANGED handoverVars
    /\ name # "codex" => UNCHANGED codexVars
    /\ name # "tui" => UNCHANGED tuiVars
    /\ name # "broker" => UNCHANGED brokerVars
    /\ name # "questions" => UNCHANGED askVars

PartsNext ==
    \/ Others("turns") /\ TurnNext
    \/ Others("watch") /\ WatchNext
    \/ Others("handover") /\ HandoverNext
    \/ Others("codex") /\ CodexWatchNext
    \/ Others("tui") /\ TuiNext
    \/ Others("broker") /\ BrokerNext
    \/ Others("questions") /\ QuestionsNext

PartsSpec ==
    PartsInit
    /\ [][PartsNext]_<<part, turnVars, watchVars, handoverVars, codexVars, tuiVars,
                       brokerVars, askVars>>
=============================================================================
