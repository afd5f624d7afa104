------------------------------- MODULE Mouse -------------------------------
(***************************************************************************)
(* The mouse driver of lab 1 (mouse.c) and the PS/2 controller it talks to.  *)
(* The controller queues the bytes of the mouse.  IRQ12 is an edge: it comes *)
(* when the first byte arrives in an empty controller and when a byte is     *)
(* read and another one follows, and is lost while ioapicenable() has not    *)
(* been called.  No key is pressed: the lab's kernel has no keyboard driver. *)
(***************************************************************************)
EXTENDS Integers, Sequences

CONSTANTS
  Button,
  MaxQueue,      \* bytes the controller has room for
  None

VARIABLES
  queue,         \* bytes in the controller, the next one first
  streaming,     \* the mouse has got the command 0xF4
  enabled,       \* ioapicenable() has been called
  irq,           \* IRQ12 is pending at the CPU
  pc,
  decoded,       \* the byte the last interrupt took for the buttons
  printed        \* the lines it printed

vars == <<queue, streaming, enabled, irq, pc, decoded, printed>>

(* A byte: where it comes from, and its low three bits, in the flags the     *)
(* buttons that are down.                                                   *)
Ack == [field |-> "ack", bits |-> {}]

Init ==
  /\ queue = <<>> /\ streaming = FALSE /\ enabled = FALSE /\ irq = FALSE
  /\ pc = "defaults" /\ decoded = None /\ printed = {}

(* inb() after mousewait_recv(), which spins while there is nothing.        *)
Inb ==
  /\ queue # <<>>
  /\ queue' = Tail(queue)
  /\ irq' = (irq \/ (enabled /\ Tail(queue) # <<>>))

-----------------------------------------------------------------------------
(* mouseinit(), with interrupts off.                                       *)

(* mousecmd(): the mouse answers, and streams after the second command.     *)
Command ==
  /\ pc \in {"defaults", "stream"}
  /\ queue' = Append(queue, Ack)
  /\ streaming' = (pc = "stream")
  /\ pc' = IF pc = "defaults" THEN "ack1" ELSE "ack2"
  /\ UNCHANGED <<enabled, irq, decoded, printed>>

(* The answer is read; mouseinit() goes on whatever it is.                  *)
ReadAck ==
  /\ pc \in {"ack1", "ack2"} /\ Inb
  /\ pc' = IF pc = "ack1" THEN "stream" ELSE "ioapic"
  /\ UNCHANGED <<streaming, enabled, decoded, printed>>

IoapicEnable ==
  /\ pc = "ioapic"
  /\ enabled' = TRUE /\ pc' = "idle"
  /\ UNCHANGED <<queue, streaming, irq, decoded, printed>>

-----------------------------------------------------------------------------
(* The mouse reports its buttons and a movement in a packet of three bytes.  *)
Report(down, dx, dy) ==
  /\ streaming /\ Len(queue) + 3 <= MaxQueue
  /\ queue' = queue \o <<[field |-> "flags", bits |-> down],
                         [field |-> "dx", bits |-> dx], [field |-> "dy", bits |-> dy]>>
  /\ irq' = (irq \/ (enabled /\ queue = <<>>))
  /\ UNCHANGED <<streaming, enabled, pc, decoded, printed>>

(* trap() calls mouseintr().                                               *)
Interrupt ==
  /\ pc = "idle" /\ irq
  /\ irq' = FALSE /\ pc' = "status"
  /\ UNCHANGED <<queue, streaming, enabled, decoded, printed>>

(* The first byte goes to status, and is not used.                          *)
ReadStatus ==
  /\ pc = "status" /\ Inb
  /\ pc' = "data"
  /\ UNCHANGED <<streaming, enabled, decoded, printed>>

ReadData ==
  /\ pc = "data" /\ Inb
  /\ decoded' = Head(queue)
  /\ printed' = Head(queue).bits
  /\ pc' = "idle"
  /\ UNCHANGED <<streaming, enabled>>

Next ==
  \/ Command \/ ReadAck \/ IoapicEnable
  \/ \E down, dx, dy \in SUBSET Button : Report(down, dx, dy)
  \/ Interrupt \/ ReadStatus \/ ReadData

Spec == Init /\ [][Next]_vars

-----------------------------------------------------------------------------
(* lab1.md:107-111: a line is printed for a click.  What mouseintr() prints  *)
(* comes from the flags of a packet, never from its movement.               *)
ClicksArePrinted == printed # {} => decoded.field = "flags"
=============================================================================
