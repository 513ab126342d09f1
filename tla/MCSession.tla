----------------------------- MODULE MCSession -----------------------------
(***************************************************************************)
(* An instance of Session for TLC: bytes of one bit, memories of four      *)
(* words and two odd bytes in an address space of eight words.  The files  *)
(* are every file of up to three tokens of the loader, and every program   *)
(* of three loads and stores.                                              *)
(***************************************************************************)
EXTENDS Session

Control(op) == [op |-> op, addr |-> 0, width |-> 4, signed |-> FALSE]
LoadFrom(a, width, signed) == [op |-> "load", addr |-> a, width |-> width, signed |-> signed]
StoreTo(a, width) == [op |-> "store", addr |-> a, width |-> width, signed |-> FALSE]

MCBehaviour == [w \in 0 .. 15 |->
    CASE w = 0  -> Control("illegal")
      [] w = 1  -> Control("next")
      [] w = 2  -> Control("jump")
      [] w = 3  -> Control("halt")
      [] w = 4  -> LoadFrom(4, 4, FALSE)
      [] w = 5  -> LoadFrom(5, 2, TRUE)
      [] w = 6  -> LoadFrom(6, 2, FALSE)
      [] w = 7  -> LoadFrom(7, 1, TRUE)
      [] w = 8  -> LoadFrom(4, 1, FALSE)
      [] w = 9  -> LoadFrom(15, 4, FALSE)
      [] w = 10 -> StoreTo(4, 1)
      [] w = 11 -> StoreTo(7, 2)
      [] w = 12 -> StoreTo(6, 4)
      [] w = 13 -> StoreTo(14, 4)
      [] w = 14 -> StoreTo(16, 2)
      [] w = 15 -> StoreTo(17, 2)]

(* An index of 8 wraps to address 0, one of 33 is cut first; 19 is cut to 3*)
(* and a word at index 4 does not fit.                                     *)
At(index) == [kind |-> "at", value |-> index]
AWord(value) == [kind |-> "word", value |-> value]
Bad == [kind |-> "bad", value |-> 0]

MCTokens == {At(1), At(4), At(8), At(33), AWord(1), AWord(2), AWord(19), Bad}

Halt == AWord(3)

MCPrograms == UNION {[1 .. n -> MCTokens] : n \in 0 .. 3}
                  \cup {Append(p, Halt) : p \in [1 .. 3 -> {AWord(w) : w \in 4 .. 15}]}
                  \cup {Append(p, AWord(12)) : p \in [1 .. 3 -> {AWord(4)}]}

MCDataFiles == {<< >>, <<AWord(5), Bad>>, <<AWord(9), At(1), AWord(13), AWord(6), AWord(11)>>}
=============================================================================
