--------------------------- MODULE MCStackService ---------------------------
(***************************************************************************)
(* Instances of StackService for TLC.  Operation IDs are interchangeable.  *)
(* Seen is what later steps and the properties of GetStackInfo can depend  *)
(* on: neither reads the node addresses, the history last or, once an      *)
(* operation has ended, its result and context.                            *)
(***************************************************************************)
EXTENDS StackService, TLC

OpSymmetry == Permutations(Ops)

Seen == <<server, running, cancels, pc, stk, kind, attempt,
          {o \in cancelled : pc[o] \in Live},
          [o \in Ops |-> IF pc[o] \in Live THEN result[o] ELSE "none"],
          record, infra, row, conn, log, reader, remover>>
============================================================================
