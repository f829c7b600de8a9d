------------------------------ MODULE EntryLog ------------------------------
(***************************************************************************)
(* What the cache of pthreads/pthreads1.c promises its threads, without a  *)
(* lock, an array or an insertion in several steps:                        *)
(*                                                                         *)
(*   - an entry is added at one moment, whole, behind the others; there    *)
(*     are never more than Bound, and none is changed, removed or added    *)
(*     twice;                                                              *)
(*   - a lookup that is answered gets, at one moment, the value of the     *)
(*     first entry, which has the key that was asked for.                  *)
(*                                                                         *)
(* It promises nothing about a lookup that is answered with NULL.          *)
(***************************************************************************)
EXTENDS Naturals, Sequences

CONSTANTS Readers,   \* the threads that look keys up
          Keys,      \* the keys they may ask for
          Entries,   \* the pairs of a key and a value that may be added
          Bound,     \* how many entries there may be
          NoKey,     \* no key was asked for yet
          NoValue    \* the reader has no value in hand

VARIABLES log,      \* the entries, oldest first
          asked,    \* the key each reader asked for
          answer    \* the value each reader has in hand

vars == <<log, asked, answer>>

Init == /\ log = <<>>
        /\ asked = [r \in Readers |-> NoKey]
        /\ answer = [r \in Readers |-> NoValue]

Add(e) == /\ Len(log) < Bound
          /\ \A i \in DOMAIN log : log[i] # e
          /\ log' = Append(log, e)
          /\ UNCHANGED <<asked, answer>>

Ask(r, k) == /\ answer[r] = NoValue
             /\ asked' = [asked EXCEPT ![r] = k]
             /\ UNCHANGED <<log, answer>>

Answer(r) == /\ log # <<>>
             /\ log[1][1] = asked[r]
             /\ answer' = [answer EXCEPT ![r] = log[1][2]]
             /\ UNCHANGED <<log, asked>>

(* The reader is done with the value.                                      *)
Forget(r) == /\ answer' = [answer EXCEPT ![r] = NoValue]
             /\ UNCHANGED <<log, asked>>

Next == \/ \E e \in Entries : Add(e)
        \/ \E r \in Readers : \/ \E k \in Keys : Ask(r, k)
                              \/ Answer(r) \/ Forget(r)

Spec == Init /\ [][Next]_vars
=============================================================================
