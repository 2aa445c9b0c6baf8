--------------------------- MODULE FpDeviceContract ---------------------------
(***************************************************************************)
(* What a client of libfprint may see the FT9201 driver do, without its    *)
(* state machines, its engine or the reader: a device that is opened,      *)
(* closed and asked for one action at a time, each answered once, with an  *)
(* answer that belongs to it.                                              *)
(***************************************************************************)
EXTENDS Integers

CONSTANT Stages   \* stages an enrollment announces at most

VARIABLES
  open, action, stage, cancelled,
  answer   \* whom, what, and whether the matcher called the template complete,
           \* which the client is not told

contractVars == <<open, action, stage, cancelled, answer>>

\* A verify is never answered with a retry: for verify a report is the result.
Answers(kind) ==
  CASE kind = "open"     -> {"ok", "error"}
    [] kind = "enroll"   -> {"enrolled", "error"}
    [] kind = "verify"   -> {"match", "nomatch", "invalid", "error"}
    [] kind = "identify" -> {"match", "nomatch", "invalid", "error", "retry"}

Nothing == <<"none", "nothing", FALSE>>

ContractInit ==
  /\ open = FALSE /\ action = "none" /\ stage = 0
  /\ cancelled = FALSE /\ answer = Nothing

MayStart(kind) == action = "none" /\ (kind = "open" <=> ~open)

Start(kind) ==
  /\ MayStart(kind)
  /\ action' = kind /\ stage' = 0 /\ cancelled' = FALSE /\ answer' = Nothing
  /\ UNCHANGED open

\* An action that cannot even start.
Refuse(kind) ==
  /\ MayStart(kind) /\ kind \in {"open", "verify"}
  /\ answer' = <<kind, IF kind = "open" THEN "error" ELSE "invalid", FALSE>>
  /\ UNCHANGED <<open, action, stage, cancelled>>

Stage ==
  /\ action = "enroll" /\ stage + 1 < Stages
  /\ stage' = stage + 1
  /\ UNCHANGED <<open, action, cancelled, answer>>

CancelAction ==
  /\ action # "none"
  /\ cancelled' = TRUE
  /\ UNCHANGED <<open, action, stage, answer>>

\* An enrollment does not end before its last stage unless the matcher needs
\* no more.
Finish(kind) ==
  /\ action = kind
  /\ \E a \in Answers(kind), whole \in BOOLEAN :
       /\ whole => a = "enrolled"
       /\ a = "enrolled" => whole \/ stage + 1 = Stages
       /\ answer' = <<kind, a, whole>>
       /\ open' = (open \/ a = "ok")
  /\ action' = "none" /\ stage' = 0
  /\ UNCHANGED cancelled

Close ==
  /\ action = "none" /\ open
  /\ open' = FALSE /\ answer' = Nothing
  /\ UNCHANGED <<action, stage, cancelled>>

Die ==
  /\ open' = FALSE /\ action' = "none" /\ stage' = 0
  /\ cancelled' = FALSE /\ answer' = Nothing

ContractNext ==
  \/ \E kind \in {"open", "enroll", "verify", "identify"} :
       Start(kind) \/ Refuse(kind) \/ Finish(kind)
  \/ Stage \/ CancelAction \/ Close \/ Die

ContractSpec == ContractInit /\ [][ContractNext]_contractVars
==============================================================================
