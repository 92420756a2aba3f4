--------------------------- MODULE CallDiscipline ---------------------------
(***************************************************************************)
(* What a caller expects of a machine that calls functions: control is a   *)
(* stack of places, the last one running and the others waiting where      *)
(* their call left them.  A function may move about in its own body, open  *)
(* another one, or return; a return resumes the place that waits below,    *)
(* unchanged.  After an error functions may be abandoned, from the last    *)
(* one called outwards, but never is one resumed anywhere else.            *)
(***************************************************************************)
EXTENDS Naturals, Sequences

CONSTANTS
  Func,  \* functions
  Pc     \* offsets in a function, 1 its first instruction

VARIABLES
  ctl,     \* places of the open functions, the running one last
  failed   \* has an error been raised?

cdVars == <<ctl, failed>>

Entered(f) == [f |-> f, pc |-> 1]
Moved(p)   == [ctl EXCEPT ![Len(ctl)] = [@ EXCEPT !.pc = p]]

CDInit == ctl = << >> /\ failed = FALSE

\* C code opens a function.
Begin == \E f \in Func : ctl' = Append(ctl, Entered(f)) /\ UNCHANGED failed

Move ==
  /\ ctl # << >>
  /\ \E p \in Pc : ctl' = Moved(p)
  /\ UNCHANGED failed

Open ==
  /\ ctl # << >>
  /\ \E p \in Pc, f \in Func : ctl' = Append(Moved(p), Entered(f))
  /\ UNCHANGED failed

Return ==
  /\ ctl # << >>
  /\ ctl' = SubSeq(ctl, 1, Len(ctl) - 1)
  /\ UNCHANGED failed

Abandon ==
  /\ failed' = TRUE
  /\ \E n \in 0 .. Len(ctl) : ctl' = SubSeq(ctl, 1, n)

CDNext == Begin \/ Move \/ Open \/ Return \/ Abandon

CDSpec == CDInit /\ [][CDNext]_cdVars
=============================================================================
