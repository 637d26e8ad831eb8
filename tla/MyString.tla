------------------------------- MODULE MyString -------------------------------
(***************************************************************************)
(* Class MyString of 01-cpp-foundation/exercises/string_class.cpp. Its     *)
(* member functions are operators that take the memory before the call to  *)
(* the memory after it, or to the set of memories when new may choose an   *)
(* address, so that the classes and templates built on it can compose      *)
(* them.                                                                   *)
(***************************************************************************)
EXTENDS Naturals, Sequences

CONSTANTS
  Strings,   \* MyString variables
  Slots,     \* where a MyString can be: in a variable or in another object
  Addrs,     \* addresses new[] can return, one that was deleted included
  Texts,     \* C strings, as sequences of characters
  NULL,      \* nullptr
  Raw,       \* what a slot holds in which no MyString has been constructed
  Free       \* what an address holds that is not allocated

ASSUME MemoryAssumption ==
  /\ NULL \notin Addrs \cup Slots \cup Texts
  /\ Free \notin Texts
  /\ Raw \notin [data : Addrs \cup {NULL}, length : Nat]
  /\ \A text \in Texts : Len(text) \in Nat

VARIABLES
  mem,       \* heap: the text at each address; str: data and length per slot
  torn       \* the slot whose assignment threw, if one did

(* delete[] a *)
Deleted(m, a) == IF a = NULL THEN m ELSE [m EXCEPT !.heap[a] = Free]

Null == [data |-> NULL, length |-> 0]
Text(m, s) == IF m.str[s].data = NULL THEN NULL ELSE m.heap[m.str[s].data]

(* length = n; data = new char[n + 1]; strcpy(data, text) *)
NewBuffer(m, s, n, text) ==
  {[m EXCEPT !.heap[a] = text, !.str[s] = [data |-> a, length |-> n]]
     : a \in {b \in Addrs : m.heap[b] = Free}}

(* MyString() and MyString(const char* ) *)
FromText(m, s, text) ==
  IF text = NULL THEN {[m EXCEPT !.str[s] = Null]} ELSE NewBuffer(m, s, Len(text), text)

(* Bug variant: the copy points to the same characters. *)
ShallowCopied(m, s, t) == {[m EXCEPT !.str[s] = m.str[t]]}

(* MyString(const MyString& other) *)
CopyConstructed(m, s, t) ==
  IF m.str[t].data = NULL
  THEN {[m EXCEPT !.str[s] = [data |-> NULL, length |-> m.str[t].length]]}
  ELSE NewBuffer(m, s, m.str[t].length, Text(m, t))

(* operator=(const MyString&): what was there is deleted first, and its     *)
(* address may be the one new returns.                                      *)
CopyAssigned(m, s, t) ==
  IF s = t THEN {m} ELSE CopyConstructed(Deleted(m, m.str[s].data), s, t)

(* The same when new throws: length is set, data still points to what was   *)
(* deleted.                                                                 *)
AssignThrows(m, s, t) == s # t /\ m.str[t].data # NULL
HalfAssigned(m, s, t) ==
  [Deleted(m, m.str[s].data) EXCEPT !.str[s].length = m.str[t].length]

(* Bug variant: the other string keeps its pointer. *)
MoveConstructedShares(m, s, t) == [m EXCEPT !.str[s] = m.str[t]]

(* MyString(MyString&& other) *)
MoveConstructed(m, s, t) == [m EXCEPT !.str[s] = m.str[t], !.str[t] = Null]

(* operator=(MyString&& other) *)
MoveAssigned(m, s, t) ==
  IF s = t THEN m ELSE MoveConstructed(Deleted(m, m.str[s].data), s, t)

(* ~MyString() *)
Destroyed(m, s) == [Deleted(m, m.str[s].data) EXCEPT !.str[s] = Raw]

-----------------------------------------------------------------------------
(* What a program does with its variables. A constructor that throws leaves *)
(* no object and no memory behind, so that it is no step. An assignment     *)
(* that throws is: nothing in these programs catches it, and it is the last.*)

Declared(s) == mem.str[s] # Raw

Declare(s) ==
  /\ ~Declared(s)
  /\ \E text \in Texts \cup {NULL} : mem' \in FromText(mem, s, text)
  /\ UNCHANGED torn

DeclareCopy(s, t) ==
  ~Declared(s) /\ Declared(t) /\ mem' \in CopyConstructed(mem, s, t) /\ UNCHANGED torn

DeclareMoved(s, t) ==
  ~Declared(s) /\ Declared(t) /\ mem' = MoveConstructed(mem, s, t) /\ UNCHANGED torn

Assign(s, t) ==
  Declared(s) /\ Declared(t) /\ mem' \in CopyAssigned(mem, s, t) /\ UNCHANGED torn

AssignFails(s, t) ==
  /\ Declared(s) /\ Declared(t) /\ AssignThrows(mem, s, t)
  /\ mem' = HalfAssigned(mem, s, t)
  /\ torn' = s

AssignMoved(s, t) ==
  Declared(s) /\ Declared(t) /\ mem' = MoveAssigned(mem, s, t) /\ UNCHANGED torn

EndScope(s) == Declared(s) /\ mem' = Destroyed(mem, s) /\ UNCHANGED torn

StringNext == \E s \in Strings :
  \/ Declare(s) \/ EndScope(s)
  \/ \E t \in Strings : \/ DeclareCopy(s, t) \/ DeclareMoved(s, t)
                        \/ Assign(s, t) \/ AssignFails(s, t) \/ AssignMoved(s, t)

-----------------------------------------------------------------------------
(* No buffer is shared, deleted twice or lost: what is allocated is what    *)
(* the strings point to, each its own, with its length. A string torn by    *)
(* its assignment (lines 49-52) is the one exception, and it alone: what it *)
(* was assigned from and all others are intact.                             *)
Owners == {s \in Slots \ {torn} : mem.str[s] # Raw /\ mem.str[s].data # NULL}
BuffersOwned ==
  /\ {a \in Addrs : mem.heap[a] # Free} = {mem.str[s].data : s \in Owners}
  /\ \A s, t \in Owners : mem.str[s].data = mem.str[t].data => s = t
  /\ \A s \in Slots \ {torn} : mem.str[s] # Raw =>
       mem.str[s].length = IF Text(mem, s) = NULL THEN 0 ELSE Len(Text(mem, s))
=============================================================================
