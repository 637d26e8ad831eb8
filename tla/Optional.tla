------------------------------- MODULE Optional -------------------------------
(***************************************************************************)
(* Optional<T> of 05-templates-advanced/exercises/optional.cpp over        *)
(* T = MyString, and my::swap of generic_swap.cpp for both. An Optional's  *)
(* value_ is the slot of its name; mem.has is its has_value_. Variables of *)
(* the two classes belong to any program.                                  *)
(***************************************************************************)
EXTENDS MyString

CONSTANTS Optionals,   \* Optional<MyString> variables
          Temp         \* the local variable of swap, of either class

ASSUME SlotsAssumption ==
  /\ Strings \cup Optionals \cup {Temp} \subseteq Slots
  /\ Strings \cap Optionals = {} /\ Temp \notin Strings \cup Optionals
  /\ Raw \notin BOOLEAN

NoTear == NULL         \* torn, before an assignment throws

(* All that is in memory when the program starts: nothing. *)
StringsInit ==
  /\ mem = [heap |-> [a \in Addrs |-> Free],
            str |-> [s \in Slots |-> Raw],
            has |-> [o \in Optionals \cup {Temp} |-> Raw]]
  /\ torn = NoTear

Has(m, o, b) == [m EXCEPT !.has[o] = b]

(* Optional(const T& ) and Optional(T&&) *)
HoldsCopy(m, o, s) == {Has(n, o, TRUE) : n \in CopyConstructed(m, o, s)}
HoldsMoved(m, o, s) == Has(MoveConstructed(m, o, s), o, TRUE)

(* Optional(const Optional& ) *)
OptCopyConstructed(m, o, p) ==
  IF m.has[p] THEN HoldsCopy(m, o, p) ELSE {Has(m, o, FALSE)}

(* Bug variant: other still says that it has a value. *)
OptMoveConstructedKeeps(m, o, p) ==
  IF m.has[p] THEN HoldsMoved(m, o, p) ELSE Has(m, o, FALSE)

(* Optional(Optional&&): the value moved from is not destroyed. *)
OptMoveConstructed(m, o, p) ==
  Has(IF m.has[p] THEN HoldsMoved(m, o, p) ELSE Has(m, o, FALSE), p, FALSE)

(* operator=(const Optional& ) *)
OptCopyAssigned(m, o, p) ==
  CASE o = p -> {m}
    [] o # p /\ m.has[o] /\ m.has[p] -> CopyAssigned(m, o, p)
    [] o # p /\ m.has[o] /\ ~m.has[p] -> {Has(Destroyed(m, o), o, FALSE)}
    [] o # p /\ ~m.has[o] -> IF m.has[p] THEN HoldsCopy(m, o, p) ELSE {m}

(* operator=(Optional&&): destroy the value, then do as the constructor. *)
OptMoveAssigned(m, o, p) ==
  IF o = p THEN m
  ELSE OptMoveConstructed(IF m.has[o] THEN Destroyed(m, o) ELSE m, o, p)

(* ~Optional(): the value is destroyed if has_value_, its storage is gone   *)
(* in any case.                                                             *)
OptDestroyed(m, o) ==
  [(IF m.has[o] THEN Destroyed(m, o) ELSE m) EXCEPT !.has[o] = Raw, !.str[o] = Raw]

(* my::swap: T temp = move(a); a = move(b); b = move(temp). *)
Swapped(m, a, b) ==
  LET m1 == MoveConstructed(m, Temp, a)
      m2 == MoveAssigned(m1, a, b)
      m3 == MoveAssigned(m2, b, Temp)
  IN  Destroyed(m3, Temp)
OptSwapped(m, a, b) ==
  LET m1 == OptMoveConstructed(m, Temp, a)
      m2 == OptMoveAssigned(m1, a, b)
      m3 == OptMoveAssigned(m2, b, Temp)
  IN  OptDestroyed(m3, Temp)

-----------------------------------------------------------------------------
(* What a program does with its Optionals. *)

OptDeclared(o) == mem.has[o] # Raw
HasValue(o) == mem.has[o] = TRUE

OptDeclare(o) == ~OptDeclared(o) /\ mem' = Has(mem, o, FALSE) /\ UNCHANGED torn

OptHold(o, s) ==
  /\ ~OptDeclared(o) /\ Declared(s)
  /\ mem' \in HoldsCopy(mem, o, s) \cup {HoldsMoved(mem, o, s)}
  /\ UNCHANGED torn

OptDeclareCopy(o, p) ==
  /\ ~OptDeclared(o) /\ OptDeclared(p)
  /\ mem' \in OptCopyConstructed(mem, o, p)
  /\ UNCHANGED torn

OptDeclareMoved(o, p) ==
  /\ ~OptDeclared(o) /\ OptDeclared(p)
  /\ mem' = OptMoveConstructed(mem, o, p)
  /\ UNCHANGED torn

OptAssign(o, p) ==
  OptDeclared(o) /\ OptDeclared(p) /\ mem' \in OptCopyAssigned(mem, o, p) /\ UNCHANGED torn

(* The value's own assignment throws. (A copy construction that throws      *)
(* leaves the Optional empty, as it was.)                                   *)
OptAssignFails(o, p) ==
  /\ HasValue(o) /\ HasValue(p) /\ AssignThrows(mem, o, p)
  /\ mem' = HalfAssigned(mem, o, p)
  /\ torn' = o

OptAssignMoved(o, p) ==
  OptDeclared(o) /\ OptDeclared(p) /\ mem' = OptMoveAssigned(mem, o, p) /\ UNCHANGED torn

OptEndScope(o) == OptDeclared(o) /\ mem' = OptDestroyed(mem, o) /\ UNCHANGED torn

(* MyString s = opt.value(), or std::move(opt).value(): the Optional keeps  *)
(* has_value_, and what is left of its value. Without a value it throws.    *)
Value(s, o) ==
  /\ ~Declared(s) /\ HasValue(o)
  /\ mem' \in CopyConstructed(mem, s, o) \cup {MoveConstructed(mem, s, o)}
  /\ UNCHANGED torn

(* MyString s = opt.value_or(std::move(d)) *)
ValueOr(s, o, d) ==
  /\ ~Declared(s) /\ OptDeclared(o) /\ Declared(d)
  /\ IF HasValue(o) THEN mem' \in CopyConstructed(mem, s, o)
                    ELSE mem' = MoveConstructed(mem, s, d)
  /\ UNCHANGED torn

Swap(a, b) ==
  Declared(a) /\ Declared(b) /\ mem' = Swapped(mem, a, b) /\ UNCHANGED torn
OptSwap(o, p) ==
  OptDeclared(o) /\ OptDeclared(p) /\ mem' = OptSwapped(mem, o, p) /\ UNCHANGED torn

OptionalNext == \E o \in Optionals :
  \/ OptDeclare(o) \/ OptEndScope(o)
  \/ \E s \in Strings : OptHold(o, s) \/ Value(s, o) \/ \E d \in Strings : ValueOr(s, o, d)
  \/ \E p \in Optionals :
       \/ OptDeclareCopy(o, p) \/ OptDeclareMoved(o, p) \/ OptSwap(o, p)
       \/ OptAssign(o, p) \/ OptAssignFails(o, p) \/ OptAssignMoved(o, p)

StringsNext ==
  /\ torn = NoTear
  /\ StringNext \/ OptionalNext \/ \E a, b \in Strings : Swap(a, b)

-----------------------------------------------------------------------------
(* has_value_ never claims a value that has been destroyed or not           *)
(* constructed, so that no destructor runs twice (lines 40, 51, 67). The    *)
(* other way round does not hold: a value moved from is not destroyed (36,  *)
(* 75), and it must be one that owns nothing, as a MyString is then.        *)
ValuesLive ==
  \A o \in Optionals :
    /\ HasValue(o) => mem.str[o] # Raw
    /\ ~HasValue(o) /\ mem.str[o] # Raw => mem.str[o] = Null

(* After any program so far: buffers and values are owned once (optional.cpp *)
(* 26-78, string_class.cpp 30-94).                                          *)
NothingLost == BuffersOwned /\ ValuesLive

(* What a variable holds, for a reader of the program. *)
Absent == Raw
StrVal(m, s) == IF m.str[s] = Raw THEN Absent ELSE Text(m, s)
Nothing == <<>>
OptVal(m, o) == CASE m.has[o] = TRUE -> <<StrVal(m, o)>>
                  [] m.has[o] = FALSE -> Nothing
                  [] OTHER -> Absent
Contents(m) == [v \in Strings \cup Optionals |->
                  IF v \in Strings THEN StrVal(m, v) ELSE OptVal(m, v)]
Becomes(v, x) == Contents(mem') = [Contents(mem) EXCEPT ![v] = x]
Become(v, x, w, y) == Contents(mem') = [Contents(mem) EXCEPT ![v] = x, ![w] = y]
OnlyChanges(v) ==
  \A w \in (Strings \cup Optionals) \ {v} : Contents(mem')[w] = Contents(mem)[w]

StringValues ==
  LET C == Contents(mem)
  IN  \A s \in Strings :
        /\ EndScope(s) => Becomes(s, Absent)
        /\ Declare(s) => OnlyChanges(s)
        /\ \A t \in Strings :
             /\ DeclareCopy(s, t) \/ Assign(s, t) => Becomes(s, C[t])
             /\ (DeclareMoved(s, t) \/ AssignMoved(s, t)) /\ s # t => Become(s, C[t], t, NULL)
             /\ AssignFails(s, t) => OnlyChanges(s)
             /\ Swap(s, t) => Become(s, C[t], t, C[s])

OptionalValues ==
  LET C == Contents(mem)
  IN  \A o \in Optionals :
        /\ OptEndScope(o) => Becomes(o, Absent)
        /\ OptDeclare(o) => Becomes(o, Nothing)
        /\ \A p \in Optionals :
             /\ OptDeclareCopy(o, p) \/ OptAssign(o, p) => Becomes(o, C[p])
             /\ (OptDeclareMoved(o, p) \/ OptAssignMoved(o, p)) /\ o # p =>
                  Become(o, C[p], p, Nothing)
             /\ OptAssignFails(o, p) => OnlyChanges(o)
             /\ OptSwap(o, p) => Become(o, C[p], p, C[o])

(* Between the two: what is left behind is the value, or a moved-from one.  *)
ExchangedValues ==
  LET C == Contents(mem)
  IN  \A s \in Strings, o \in Optionals :
        /\ OptHold(o, s) => \E left \in {C[s], NULL} : Become(o, <<C[s]>>, s, left)
        /\ Value(s, o) => \E left \in {C[o], <<NULL>>} : Become(s, C[o][1], o, left)
        /\ \A d \in Strings : ValueOr(s, o, d) =>
             IF HasValue(o) THEN Becomes(s, C[o][1]) ELSE Become(s, C[d], d, NULL)

(* Copies are equal and independent, a move hands over, swap exchanges, and *)
(* every call leaves the other variables as they were, one that throws as   *)
(* well: values behave as values although they are pointers to a heap whose *)
(* addresses come round (string_class.cpp 30-94, optional.cpp 26-110,       *)
(* generic_swap.cpp 29-33).                                                 *)
ValueSemantics == [][StringValues /\ OptionalValues /\ ExchangedValues]_mem
=============================================================================
