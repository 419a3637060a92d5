------------------------------- MODULE StrShare -------------------------------
(***************************************************************************)
(* lib/string-inl.h: the buffers that Strs share, and the count of Strs in *)
(* each of them, a uint16_t without an overflow check.  Every operation    *)
(* that makes a Str of a part of another (substr, split, strip, ...) copies *)
(* the pointer to its buffer; every one that writes new text allocates.    *)
(***************************************************************************)
EXTENDS Integers, FiniteSets

CONSTANTS Strs,      \* the Str objects of a program
          Shared,    \* str_buffer_t
          Width,     \* bits of cnt
          NoBuffer,  \* buffer_ of a Str over a C-string, or of nullstr
          NoStr,     \* an object that is not constructed, or destroyed
          MaxLost    \* bound: references that operator=(const char *) loses

ASSUME StrShareAssumption ==
    /\ Width \in Nat \ {0} /\ MaxLost \in Nat
    /\ 2^Width \in Nat /\ 2^Width > 1      \* holds of every Width; the provers do not compute ^
    /\ IsFiniteSet(Strs)
    /\ NoBuffer # NoStr /\ {NoBuffer, NoStr} \cap Shared = {}

VARIABLES str,      \* str[s], the buffer_ of s
          live,     \* buffers that are allocated
          cnt,      \* cnt[b], the count in b
          lost,     \* history: lost[b], references to b dropped without a count
          crowded   \* history: a buffer had more references than cnt can count

shareVars == <<str, live, cnt, lost, crowded>>

Refs(b) == Cardinality({s \in Strs : str[s] = b})

ShareInit == /\ str = [s \in Strs |-> NoStr]
             /\ live = {}
             /\ cnt = [b \in Shared |-> 0]
             /\ lost = [b \in Shared |-> 0]
             /\ crowded = FALSE

\* what s refers to may be read and counted; behind a freed buffer anything happens
Sound(s) == str[s] \in live \cup {NoBuffer}
-----------------------------------------------------------------------------
\* cnt++ in b and cnt-- in a, which is freed at zero; nothing for NoBuffer
Recount(count, b, n) == IF b = NoBuffer THEN count
                         ELSE [count EXCEPT ![b] = (@ + n) % 2^Width]

GivenUp(count, b)   == Recount(count, b, 2^Width - 1)
FreedBy(count, b)   == {a \in live : a = b /\ GivenUp(count, b)[a] = 0}

\* the history of the step to str'
Note == crowded' = (crowded \/ \E b \in Shared :
                      Cardinality({s \in Strs : str'[s] = b}) + lost'[b] > 2^Width)

\* alloc, and the Str that is made of it (create, copy, concat, join, sprintf, ...)
Alloc(s, b) == /\ str[s] = NoStr /\ b \notin live
               /\ live' = live \cup {b}
               /\ cnt' = [cnt EXCEPT ![b] = 1]
               /\ str' = [str EXCEPT ![s] = b]
               /\ lost' = [lost EXCEPT ![b] = 0]
               /\ Note

\* Str() and Str(const char *)
Literal(s) == /\ str[s] = NoStr
              /\ str' = [str EXCEPT ![s] = NoBuffer]
              /\ UNCHANGED <<live, cnt, lost, crowded>>

\* Str(const Str&) and Str(const Str&, pos, n)
Share(s, t) == /\ str[s] = NoStr /\ Sound(t)
               /\ str' = [str EXCEPT ![s] = str[t]]
               /\ cnt' = Recount(cnt, str[t], 1)
               /\ UNCHANGED <<live, lost>>
               /\ Note

\* Str(Str&&)
MoveTo(s, t) == /\ str[s] = NoStr /\ Sound(t)
                /\ str' = [str EXCEPT ![s] = str[t], ![t] = NoBuffer]
                /\ UNCHANGED <<live, cnt, lost, crowded>>

\* mutant: the buffer of s is given up after that of t is taken, uncounted
AssignUncounted(s, t) ==
    /\ s # t /\ Sound(s) /\ Sound(t)
    /\ live' = live \ FreedBy(cnt, str[s])
    /\ cnt' = GivenUp(cnt, str[s])
    /\ str' = [str EXCEPT ![s] = str[t]]
    /\ UNCHANGED lost
    /\ Note

\* operator=(const Str&): the old buffer is given up first
AssignCopy(s, t) == /\ s # t /\ Sound(s) /\ Sound(t)
                    /\ live' = live \ FreedBy(cnt, str[s])
                    /\ cnt' = Recount(GivenUp(cnt, str[s]), str[t], 1)
                    /\ str' = [str EXCEPT ![s] = str[t]]
                    /\ UNCHANGED lost
                    /\ Note

\* operator=(Str&&)
AssignMove(s, t) == /\ s # t /\ Sound(s) /\ Sound(t)
                    /\ live' = live \ FreedBy(cnt, str[s])
                    /\ cnt' = GivenUp(cnt, str[s])
                    /\ str' = [str EXCEPT ![s] = str[t], ![t] = NoBuffer]
                    /\ UNCHANGED <<lost, crowded>>

\* operator=(const char *): the reference goes, its count stays
AssignLiteral(s) == /\ Sound(s)
                    /\ str[s] \in Shared => lost[str[s]] < MaxLost
                    /\ str' = [str EXCEPT ![s] = NoBuffer]
                    /\ lost' = [b \in Shared |-> lost[b] + (IF b = str[s] THEN 1 ELSE 0)]
                    /\ UNCHANGED <<live, cnt, crowded>>

\* ~Str
Destroy(s) == /\ Sound(s)
              /\ live' = live \ FreedBy(cnt, str[s])
              /\ cnt' = GivenUp(cnt, str[s])
              /\ str' = [str EXCEPT ![s] = NoStr]
              /\ UNCHANGED <<lost, crowded>>

ShareNext == \E s \in Strs :
                \/ \E b \in Shared : Alloc(s, b)
                \/ \E t \in Strs : \/ Share(s, t)
                                   \/ MoveTo(s, t)
                                   \/ AssignCopy(s, t)
                                   \/ AssignMove(s, t)
                \/ Literal(s)
                \/ AssignLiteral(s)
                \/ Destroy(s)

ShareSpec == ShareInit /\ [][ShareNext]_shareVars
-----------------------------------------------------------------------------
\* Until a buffer has had more references than cnt can count: the count of an
\* allocated buffer is the number of the Strs in it and of those that a C-string
\* was assigned to, modulo its width; every Str's buffer is allocated; and a buffer
\* is kept only for a Str or for a reference that was lost.
CountIsExact ==
    ~crowded =>
       /\ \A b \in live : Refs(b) + lost[b] > 0 /\ cnt[b] = (Refs(b) + lost[b]) % 2^Width
       /\ \A s \in Strs : str[s] \in live \cup {NoBuffer, NoStr}
=============================================================================
