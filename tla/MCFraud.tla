------------------------------- MODULE MCFraud -------------------------------
(* Two claims of one user; a clean and a spoofed activity report.            *)
EXTENDS Fraud

CONSTANTS c1, c2, worker

MCUserOf == [c \in {c1, c2} |-> worker]

Report == [gps : {TRUE}, activity : {80}, device : {TRUE}, severity : {"HIGH"}, type : {"weather"}]

Spoofed == [gps |-> FALSE, activity |-> 10, device |-> FALSE, severity |-> "LOW",
            type |-> "platform"]

MCProfiles == Report \cup {Spoofed}

\* The signals that come nearest to the threshold; a check of the consumer has none.
MCSignals == {{"zone", "risk"}}

\* Just below and just at what two failures and a duplicate leave to the threshold.
MCShares == [p \in MCProfiles \cup {EventProfile} |->
               IF p = EventProfile THEN {QuietShare, QuietShare + 1}
               ELSE IF p = Spoofed THEN {25} ELSE {QuietShare}]
=============================================================================
