-------------------------------- MODULE Rings --------------------------------
(***************************************************************************)
(* The two rings of the kernel whose counters wrap, side by side: a pipe     *)
(* (Pipe, by EXTENDS), or the input of the console (Console).  typing tells  *)
(* which one is at work.                                                    *)
(***************************************************************************)
EXTENDS Pipe

CONSTANTS
  Letter, NewLine, EndMark, INPUT_BUF,
  IndexWidth,    \* r, w and e of the console count modulo IndexWidth
  Reader,        \* the processes that read the console
  Lengths        \* how many characters they ask for

VARIABLES typing, ring, rIndex, wIndex, eIndex, asked, wanted

Con == INSTANCE Console WITH
  Width <- IndexWidth, Proc <- Reader, ReadSizes <- Lengths,
  buf <- ring, r <- rIndex, w <- wIndex, e <- eIndex, target <- asked, n <- wanted

ASSUME RingAssumption == Con!ConsoleAssumption

conVars == <<ring, rIndex, wIndex, eIndex, asked, wanted>>

RingsInit == typing \in BOOLEAN /\ Init /\ Con!Init
RingsNext ==
  \/ ~typing /\ Next /\ UNCHANGED <<typing, conVars>>
  \/ typing /\ Con!Next /\ UNCHANGED <<typing, vars>>
RingsSpec == RingsInit /\ [][RingsNext]_<<typing, vars, conVars>>

(* console.c:192-275.  Typing, editing and reading a ring whose indices wrap *)
(* amounts to a line buffer: no character is lost, read twice or read while   *)
(* it can be edited.                                                        *)
LineSpec == Con!LineSpec
=============================================================================
