------------------------------- MODULE Keypad --------------------------------
(***************************************************************************)
(* The keypad (keypad.h): the host presses and releases keys between two   *)
(* ticks of the CPU, the program writes KEYCNT, and both ask for the       *)
(* keypad's interrupt if its condition holds.  A store to KEYCNT is        *)
(* written byte by byte, and the condition is looked at after each.        *)
(***************************************************************************)
CONSTANTS
    Keys,               \* the ten keys
    LowKeys             \* those in the low byte of KEYINPUT and KEYCNT

ASSUME KeypadAssumption == LowKeys \subseteq Keys

VARIABLES
    held,               \* the keys that are 0 in keyinput_
    keycnt_,            \* the selected keys, enabled, and cond_strategy
    storing,            \* <<n>>: the second byte of n is still to be written
    asked,              \* ghost: the condition that holds has asked for an interrupt
    released,           \* ghost: a release made it hold
    spurious            \* ghost: a store asked for an interrupt which it does not select

KeyCnt == [select : SUBSET Keys, enabled : BOOLEAN, cond_strategy : {"any", "all"}]
NotAsking == [select |-> {}, enabled |-> FALSE, cond_strategy |-> "any"]

keypadvars == <<held, keycnt_, storing, asked, released, spurious>>

KeypadInit ==
    /\ held = {}
    /\ keycnt_ = NotAsking
    /\ storing = <<>>
    /\ asked = FALSE /\ released = FALSE /\ spurious = FALSE

(* interrupt_available: `all' is these keys and no others. *)
Available(keys, control) ==
    /\ control.enabled
    /\ \/ control.cond_strategy = "any" /\ control.select \cap keys # {}
       \/ control.cond_strategy = "all" /\ control.select = keys

Holds == Available(held, keycnt_)
-----------------------------------------------------------------------------
(* What asks for the interrupt if the condition holds, and release, which
   never asks. *)
HoldsNext == Available(held', keycnt_')
AsksIfAvailable == asked' = HoldsNext /\ released' = FALSE

Press(k) ==
    /\ storing = <<>> /\ k \notin held
    /\ held' = held \cup {k}
    /\ UNCHANGED <<keycnt_, storing, spurious>>
    /\ AsksIfAvailable

Release(k) ==
    /\ storing = <<>> /\ k \in held
    /\ held' = held \ {k}
    /\ UNCHANGED <<keycnt_, storing, spurious>>
    /\ asked' = (asked /\ HoldsNext)
    /\ released' = (HoldsNext /\ (released \/ ~Holds))

(* The bytes of KEYCNT. *)
WithLow(control, n) ==
    [control EXCEPT !.select = (@ \ LowKeys) \cup (n.select \cap LowKeys)]
WithHigh(control, n) ==
    [n EXCEPT !.select = (@ \ LowKeys) \cup (control.select \cap LowKeys)]

(* A store of a half word, the low byte first.  Mutant: the high one. *)
HighFirst(control, n) == WithHigh(control, n)
First(control, n) == WithLow(control, n)

WriteKeycnt(n) ==
    /\ storing = <<>>
    /\ storing' = <<n>>
    /\ keycnt_' = First(keycnt_, n)
    /\ UNCHANGED held
    /\ AsksIfAvailable
    /\ spurious' = (spurious \/ (HoldsNext /\ ~Available(held, n) /\ ~keycnt_.enabled))

WriteSecondByte ==
    /\ storing # <<>>
    /\ keycnt_' = storing[1]
    /\ storing' = <<>>
    /\ UNCHANGED <<held, spurious>>
    /\ AsksIfAvailable

(* A store of one of the bytes. *)
WriteByte(n) ==
    /\ storing = <<>>
    /\ keycnt_' \in {WithLow(keycnt_, n), WithHigh(keycnt_, n)}
    /\ UNCHANGED <<held, storing, spurious>>
    /\ AsksIfAvailable

KeypadNext ==
    \/ \E k \in Keys : Press(k) \/ Release(k)
    \/ \E n \in KeyCnt : WriteKeycnt(n) \/ WriteByte(n)
    \/ WriteSecondByte

KeypadSpec == KeypadInit /\ [][KeypadNext]_keypadvars
-----------------------------------------------------------------------------
(* An interrupt is asked for whenever the condition comes to hold, by a key or
   by a store of either width, but for the release of a key too many, which is
   noticed only with the next key; and a store that enables the interrupt never
   asks for one because half of it meets what KEYCNT held before. *)
KeysAnswered ==
    /\ Holds => asked \/ (released /\ keycnt_.cond_strategy = "all")
    /\ ~spurious
=============================================================================
