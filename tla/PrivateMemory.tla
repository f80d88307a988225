---------------------------- MODULE PrivateMemory ----------------------------
(***************************************************************************)
(* What the interpreter may assume of memory: every execution state has a  *)
(* memory of its own.  A step changes at most one object of one state, or  *)
(* ends a state, or forks one, giving the new state the same memory but    *)
(* for at most one object, or ending the original; constant objects never  *)
(* change.  AddressSpace, where states share objects until they write      *)
(* them, implements this.                                                  *)
(***************************************************************************)
CONSTANTS State, Object, Constant, Contents,
          Unbound,    \* of an object that a memory does not hold
          Dead        \* the memory of a state that does not exist

VARIABLE mem

Memory == [Object -> Contents \cup {Unbound}]

\* The memories that differ from m in at most one object, not a constant.
Written(m) == {m} \cup {[m EXCEPT ![mo] = c] : mo \in Object \ Constant,
                                               c \in Contents \cup {Unbound}}

Access(s) == \E m \in Written(mem[s]) : mem' = [mem EXCEPT ![s] = m]

End(s) == mem' = [mem EXCEPT ![s] = Dead]

Fork(s, t) ==
  /\ mem[t] = Dead
  /\ \/ \E m \in Written(mem[s]) : mem' = [mem EXCEPT ![t] = m]
     \/ \E m \in Written(mem[s]) \cup {Dead} : mem' = [mem EXCEPT ![s] = m, ![t] = mem[s]]

Init ==
  \E s \in State :
    /\ mem \in [State -> Memory \cup {Dead}]
    /\ mem[s] \in Memory
    /\ \A t \in State \ {s} : mem[t] = Dead

Next == \E s \in State :
          /\ mem[s] # Dead
          /\ Access(s) \/ End(s) \/ \E t \in State \ {s} : Fork(s, t)

Spec == Init /\ [][Next]_mem
=============================================================================
