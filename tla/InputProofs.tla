---------------------------- MODULE InputProofs ----------------------------
(***************************************************************************)
(* Proofs about what is made of input from outside: the description of a   *)
(* pipeline (Description), the variables of a build (BuildVars) and the    *)
(* delivery of a git host (Webhooks).  No theorem about one of them speaks *)
(* of another.                                                             *)
(***************************************************************************)
EXTENDS Description, BuildVars, Webhooks, DataLemmas, TLAPS

-----------------------------------------------------------------------------
(* The description: the engine rejects a build for two reasons only.  The  *)
(* induction is over the steps preBuild has looked at, by a least          *)
(* counterexample.                                                         *)

\* The loop of preBuild over the first m steps: what it has after each of them.
Round(on, steps, n) ==
  IF n = 0 THEN <<>>
  ELSE IF steps[n].off THEN on[n - 1] ELSE Append(on[n - 1], steps[n])
IsLoop(on, steps, m) == on = [n \in 0 .. m |-> Round(on, steps, n)]
Loop(steps, m) == CHOOSE on : IsLoop(on, steps, m)

\* The enabled steps are what the loop has in the end.
LEMMA EnabledIs ==
  ASSUME NEW steps
  PROVE  Enabled(steps) = Loop(steps, Len(steps))[Len(steps)]
BY DEF Enabled, Loop, IsLoop, Round

\* The recursive function of the loop exists, whatever the steps are.
LEMMA LoopExists ==
  ASSUME NEW steps \in Seq(Steps)
  PROVE  IsLoop(Loop(steps, Len(steps)), steps, Len(steps))
<1> DEFINE Bad == {m \in Nat : ~ \E on : IsLoop(on, steps, m)}
<1>1. Bad = {}
  <2> SUFFICES ASSUME Bad # {} PROVE FALSE
    OBVIOUS
  <2>1. PICK m \in Bad : \A k \in Bad : m <= k
    <3>1. Bad \in SUBSET Nat
      OBVIOUS
    <3> HIDE DEF Bad
    <3> QED BY <3>1, LeastNumber
  <2>2. m # 0
    <3> DEFINE on == [n \in 0 .. 0 |-> <<>>]
    <3>1. IsLoop(on, steps, 0)
      BY DEF IsLoop, Round
    <3> QED BY <2>1, <3>1
  <2>3. PICK on : IsLoop(on, steps, m - 1)
    <3>1. m - 1 \in Nat /\ ~ (m <= m - 1)
      BY <2>1, <2>2
    <3> QED BY <2>1, <3>1
  <2> DEFINE last == IF steps[m].off THEN on[m - 1] ELSE Append(on[m - 1], steps[m])
             next == [n \in 0 .. m |-> IF n = m THEN last ELSE on[n]]
  <2>4. IsLoop(next, steps, m)
    <3>1. \A n \in 0 .. m - 1 : next[n] = on[n]
      BY <2>1
    <3>2. \A n \in 0 .. m - 1 : on[n] = Round(on, steps, n)
      BY <2>3 DEF IsLoop
    <3>3. ASSUME NEW n \in 0 .. m
          PROVE  next[n] = Round(next, steps, n)
      <4>1. CASE n = m
        <5>1. next[n] = last
          BY <4>1
        <5>2. n - 1 \in 0 .. m - 1 /\ n # 0
          BY <2>1, <2>2, <4>1
        <5> HIDE DEF next
        <5> QED BY <3>1, <4>1, <5>1, <5>2 DEF Round
      <4>2. CASE n = 0
        <5>1. 0 \in 0 .. m - 1
          BY <2>1, <2>2
        <5> HIDE DEF next
        <5> QED BY <3>1, <3>2, <4>2, <5>1 DEF Round
      <4>3. CASE n # m /\ n # 0
        <5>1. n \in 0 .. m - 1 /\ n - 1 \in 0 .. m - 1
          BY <2>1, <4>3
        <5> HIDE DEF next
        <5> QED BY <3>1, <3>2, <4>3, <5>1 DEF Round
      <4> QED BY <4>1, <4>2, <4>3
    <3>4. next = [n \in 0 .. m |-> next[n]]
      OBVIOUS
    <3> HIDE DEF next
    <3> QED BY <3>3, <3>4 DEF IsLoop
  <2> QED BY <2>1, <2>4
<1>2. Len(steps) \in Nat
  OBVIOUS
<1>3. \E on : IsLoop(on, steps, Len(steps))
  BY <1>1, <1>2
<1> QED BY <1>3 DEF IsLoop, Loop

\* What the loop has after n steps: those of them that are not disabled, each once.
Kept(on, steps, n) ==
  /\ on \in Seq(Steps)
  /\ \A j \in DOMAIN on : \E k \in 1 .. n : ~ steps[k].off /\ on[j] = steps[k]
  /\ \A k \in 1 .. n : ~ steps[k].off => \E j \in DOMAIN on : on[j] = steps[k]
  /\ Distinct(steps) => Distinct(on)

\* One round of the loop leaves a disabled step out and puts any other at the end.
LEMMA KeptStep ==
  ASSUME NEW steps \in Seq(Steps), NEW n \in 1 .. Len(steps), NEW on, Kept(on, steps, n - 1)
  PROVE  Kept(IF steps[n].off THEN on ELSE Append(on, steps[n]), steps, n)
<1>1. /\ Len(steps) \in Nat /\ n \in Nat /\ n - 1 \in 0 .. Len(steps)
      /\ 1 .. n = (1 .. (n - 1)) \cup {n} /\ n \notin 1 .. (n - 1)
      /\ DOMAIN steps = 1 .. Len(steps) /\ 1 .. n \subseteq DOMAIN steps
      /\ steps[n] \in Steps
  OBVIOUS
<1>2. CASE steps[n].off
  BY <1>1, <1>2 DEF Kept
<1>3. CASE ~ steps[n].off
  <2> DEFINE next == Append(on, steps[n])
  <2>1. on \in Seq(Steps)
    BY DEF Kept
  <2>2. /\ next \in Seq(Steps)
        /\ DOMAIN next = DOMAIN on \cup {Len(on) + 1}
        /\ Len(on) + 1 \notin DOMAIN on
        /\ next[Len(on) + 1] = steps[n]
        /\ \A j \in DOMAIN on : next[j] = on[j]
    BY <1>1, <2>1, AppendProperties
  <2> HIDE DEF next
  <2>3. \A j \in DOMAIN next : \E k \in 1 .. n : ~ steps[k].off /\ next[j] = steps[k]
    BY <1>1, <1>3, <2>2 DEF Kept
  <2>4. \A k \in 1 .. n : ~ steps[k].off => \E j \in DOMAIN next : next[j] = steps[k]
    BY <1>1, <1>3, <2>2 DEF Kept
  <2>5. ASSUME Distinct(steps) PROVE Distinct(next)
    <3>1. Distinct(on)
      BY <2>5 DEF Kept
    <3>2. ASSUME NEW j \in DOMAIN on PROVE on[j].name # steps[n].name
      <4>1. PICK k \in 1 .. (n - 1) : on[j] = steps[k]
        BY DEF Kept
      <4>2. k \in DOMAIN steps /\ n \in DOMAIN steps /\ k # n
        BY <1>1
      <4> QED BY <2>5, <4>1, <4>2 DEF Distinct
    <3> QED BY <2>2, <3>1, <3>2 DEF Distinct
  <2>6. Kept(next, steps, n)
    BY <2>2, <2>3, <2>4, <2>5 DEF Kept
  <2> QED BY <1>3, <2>6 DEF next
<1> QED BY <1>2, <1>3

\* The steps preBuild keeps are the enabled ones, each once.
LEMMA EnabledIsKept ==
  ASSUME NEW steps \in Seq(Steps)
  PROVE  Kept(Enabled(steps), steps, Len(steps))
<1> DEFINE on == Loop(steps, Len(steps))
           Bad == {n \in 0 .. Len(steps) : ~ Kept(on[n], steps, n)}
<1>1. Len(steps) \in Nat
  OBVIOUS
<1>2. IsLoop(on, steps, Len(steps))
  BY LoopExists
<1>3. \A n \in 0 .. Len(steps) : on[n] = Round(on, steps, n)
  <2> HIDE DEF on
  <2> QED BY <1>2 DEF IsLoop
<1> HIDE DEF on
<1>4. Bad = {}
  <2> SUFFICES ASSUME Bad # {} PROVE FALSE
    OBVIOUS
  <2>1. PICK n \in Bad : \A k \in Bad : n <= k
    <3>1. Bad \in SUBSET Nat
      BY <1>1
    <3> HIDE DEF Bad
    <3> QED BY <3>1, LeastNumber
  <2>2. n # 0
    <3>1. Kept(<<>>, steps, 0)
      <4>1. <<>> \in Seq(Steps) /\ DOMAIN <<>> = {} /\ 1 .. 0 = {}
        OBVIOUS
      <4> QED BY <4>1 DEF Kept, Distinct
    <3>2. on[0] = <<>>
      BY <1>1, <1>3 DEF Round
    <3> QED BY <2>1, <3>1, <3>2
  <2>3. n \in 1 .. Len(steps) /\ n - 1 \in 0 .. Len(steps) /\ ~ (n <= n - 1)
    BY <1>1, <2>1, <2>2
  <2>4. Kept(on[n - 1], steps, n - 1)
    BY <2>1, <2>3
  <2>5. on[n] = IF steps[n].off THEN on[n - 1] ELSE Append(on[n - 1], steps[n])
    BY <1>3, <2>2, <2>3 DEF Round
  <2> QED BY <2>1, <2>3, <2>4, <2>5, KeptStep
<1>5. Kept(on[Len(steps)], steps, Len(steps))
  BY <1>1, <1>4
<1> QED BY <1>5, EnabledIs DEF on

-----------------------------------------------------------------------------
(* Replacing names.                                                        *)

\* Names that were different and not empty stay so unless the variable makes one of
\* them empty or the same as another.
LEMMA NamesReplaced ==
  ASSUME NEW s, NEW t, Var # Blank, Distinct(s), \A i \in DOMAIN s : s[i].name # Blank,
         DOMAIN t = DOMAIN s, \A i \in DOMAIN s : t[i].name = Replaced(s[i].name)
  PROVE  Distinct(t) /\ (\A i \in DOMAIN t : t[i].name # Blank)
           <=> ~ \E i \in DOMAIN s : s[i].name = Var /\ Clashes(Names(s))
<1>1. ASSUME NEW i \in DOMAIN s, s[i].name = Var, Clashes(Names(s))
      PROVE  ~ Distinct(t) \/ ~ \A k \in DOMAIN t : t[k].name # Blank
  <2>1. t[i].name = value
    BY <1>1 DEF Replaced
  <2>2. CASE value = Blank
    BY <2>1, <2>2
  <2>3. CASE value # Blank
    <3>1. PICK j \in DOMAIN s : s[j].name = value /\ value # Var
      BY <1>1, <2>3 DEF Clashes, Names
    <3>2. j # i /\ t[j].name = value
      BY <1>1, <3>1 DEF Replaced
    <3> QED BY <2>1, <3>2 DEF Distinct
  <2> QED BY <2>2, <2>3
<1>2. ASSUME NEW i \in DOMAIN s, t[i].name = Blank
      PROVE  s[i].name = Var /\ Clashes(Names(s))
  BY <1>2 DEF Replaced, Clashes
<1>3. ASSUME NEW i \in DOMAIN s, NEW j \in DOMAIN s, i # j, t[i].name = t[j].name
      PROVE  \E k \in {i, j} : s[k].name = Var /\ Clashes(Names(s))
  <2>1. s[i].name # s[j].name
    BY <1>3 DEF Distinct
  <2>2. s[i].name \in Names(s) /\ s[j].name \in Names(s)
    BY DEF Names
  <2> QED BY <1>3, <2>1, <2>2 DEF Replaced, Clashes
<1> QED BY <1>1, <1>2, <1>3 DEF Distinct

\* A stage of a description that passed Check and what preBuild makes of it.
LEMMA BuiltStage ==
  ASSUME NEW d \in Seq(Stages), Check(d), NEW i \in DOMAIN d
  PROVE  LET steps == d[i].steps  on == Enabled(steps)  t == Built(d)[i].steps IN
         /\ steps \in Seq(Steps) /\ steps # <<>> /\ Distinct(steps)
         /\ \A k \in DOMAIN steps : steps[k].plugin # Blank /\ steps[k].name # Blank
         /\ Kept(on, steps, Len(steps)) /\ DOMAIN steps = 1 .. Len(steps)
         /\ Built(d)[i].name = Replaced(d[i].name)
         /\ DOMAIN t = DOMAIN on /\ (t = <<>> <=> on = <<>>)
         /\ \A j \in DOMAIN on : /\ t[j].name = Replaced(on[j].name)
                                 /\ t[j].plugin = Replaced(on[j].plugin)
<1> DEFINE steps == d[i].steps
           on == Enabled(steps)
           t == Built(d)[i].steps
<1>1. d[i] \in Stages
  OBVIOUS
<1>2. steps \in Seq(Steps) /\ DOMAIN steps = 1 .. Len(steps)
  BY <1>1 DEF Stages
<1>3. /\ steps # <<>> /\ Distinct(steps)
      /\ \A k \in DOMAIN steps : steps[k].plugin # Blank /\ steps[k].name # Blank
  BY DEF Check
<1>4. Kept(on, steps, Len(steps))
  BY <1>2, EnabledIsKept
<1> HIDE DEF on
<1>5. on \in Seq(Steps)
  BY <1>4 DEF Kept
<1>6. /\ Built(d)[i].name = Replaced(d[i].name)
      /\ t = [j \in DOMAIN on |-> [on[j] EXCEPT !.name = Replaced(@), !.plugin = Replaced(@)]]
  BY DEF Built, on
<1>7. \A j \in DOMAIN on : /\ t[j].name = Replaced(on[j].name)
                           /\ t[j].plugin = Replaced(on[j].plugin)
  <2> SUFFICES ASSUME NEW j \in DOMAIN on
               PROVE  t[j].name = Replaced(on[j].name) /\ t[j].plugin = Replaced(on[j].plugin)
    OBVIOUS
  <2>1. on[j] \in Steps
    BY <1>5
  <2>2. t[j] = [on[j] EXCEPT !.name = Replaced(@), !.plugin = Replaced(@)]
    BY <1>6
  <2> HIDE DEF t
  <2> QED BY <2>1, <2>2 DEF Steps
<1>8. DOMAIN t = DOMAIN on /\ (t = <<>> <=> on = <<>>)
  <2>1. DOMAIN t = DOMAIN on
    BY <1>6
  <2>2. on = <<>> <=> DOMAIN on = {}
    BY <1>5
  <2>3. t = <<>> <=> DOMAIN t = {}
    <3>1. t = [j \in DOMAIN on |-> t[j]]
      BY <1>6
    <3>2. DOMAIN on = 1 .. Len(on) /\ Len(on) \in Nat
      BY <1>5
    <3> HIDE DEF t
    <3> QED BY <2>1, <3>1, <3>2
  <2> QED BY <2>1, <2>2, <2>3
<1> QED BY <1>2, <1>3, <1>4, <1>6, <1>7, <1>8 DEF on

\* The engine rejects the build of a description that passed Check exactly when a stage
\* has only disabled steps or the variable makes a name empty or equal to another: the
\* name of a stage, or the name or the plugin of a step that is not disabled.
LEMMA RejectedIff ==
  ASSUME NEW d \in Seq(Stages), Check(d)
  PROVE  ~ Takes(Built(d)) <=> AllOff(d) \/ Collides(d)
<1> DEFINE b == Built(d)
           S(i) == d[i].steps
           E(i) == Enabled(S(i))
           T(i) == b[i].steps
<1>1. /\ d # <<>> /\ Distinct(d) /\ \A i \in DOMAIN d : d[i].name # Blank
      /\ Var # Blank
  BY DescriptionShape DEF Check, DescriptionShape
<1>2. DOMAIN b = DOMAIN d /\ b # <<>>
  <2>1. DOMAIN b = DOMAIN d
    BY DEF Built
  <2>2. 1 \in DOMAIN d /\ 1 \notin DOMAIN <<>>
    BY <1>1
  <2> QED BY <2>1, <2>2
<1>3. ASSUME NEW i \in DOMAIN d
      PROVE  /\ S(i) \in Seq(Steps) /\ S(i) # <<>> /\ Distinct(S(i))
             /\ \A k \in DOMAIN S(i) : S(i)[k].plugin # Blank /\ S(i)[k].name # Blank
             /\ Kept(E(i), S(i), Len(S(i))) /\ DOMAIN S(i) = 1 .. Len(S(i))
             /\ b[i].name = Replaced(d[i].name)
             /\ DOMAIN T(i) = DOMAIN E(i) /\ (T(i) = <<>> <=> E(i) = <<>>)
             /\ \A j \in DOMAIN E(i) : T(i)[j].name = Replaced(E(i)[j].name)
                                         /\ T(i)[j].plugin = Replaced(E(i)[j].plugin)
  BY <1>3, BuiltStage
<1>4. Distinct(b) /\ (\A i \in DOMAIN b : b[i].name # Blank)
        <=> ~ \E i \in DOMAIN d : d[i].name = Var /\ Clashes(Names(d))
  <2> HIDE DEF b
  <2> QED BY <1>1, <1>2, <1>3, NamesReplaced
<1> HIDE DEF b, E
<1>5. ASSUME NEW i \in DOMAIN d
      PROVE  /\ \A j \in DOMAIN E(i) :
                   \E k \in DOMAIN S(i) : ~ S(i)[k].off /\ E(i)[j] = S(i)[k]
             /\ \A k \in DOMAIN S(i) :
                   ~ S(i)[k].off => \E j \in DOMAIN E(i) : E(i)[j] = S(i)[k]
             /\ Distinct(E(i)) /\ E(i) \in Seq(Steps)
  <2> DEFINE ei == E(i)
             si == S(i)
  <2>1. Kept(ei, si, Len(si)) /\ DOMAIN si = 1 .. Len(si) /\ Distinct(si)
    BY <1>3
  <2> HIDE DEF ei, si
  <2>2. /\ \A j \in DOMAIN ei : \E k \in DOMAIN si : ~ si[k].off /\ ei[j] = si[k]
        /\ \A k \in DOMAIN si : ~ si[k].off => \E j \in DOMAIN ei : ei[j] = si[k]
        /\ Distinct(ei) /\ ei \in Seq(Steps)
    BY <2>1 DEF Kept
  <2> QED BY <2>2 DEF ei, si
<1>6. ASSUME NEW i \in DOMAIN d
      PROVE  T(i) = <<>> <=> \A j \in DOMAIN S(i) : S(i)[j].off
  <2>1. E(i) = <<>> <=> DOMAIN E(i) = {}
    BY <1>5
  <2> QED BY <1>3, <1>5, <2>1
<1>7. ASSUME NEW i \in DOMAIN d
      PROVE  Distinct(T(i)) /\ (\A j \in DOMAIN T(i) : T(i)[j].name # Blank)
               <=> ~ \E k \in DOMAIN S(i) :
                       ~ S(i)[k].off /\ S(i)[k].name = Var /\ Clashes(Names(E(i)))
  <2>1. \A j \in DOMAIN E(i) : E(i)[j].name # Blank
    BY <1>3, <1>5
  <2>2. Distinct(T(i)) /\ (\A j \in DOMAIN T(i) : T(i)[j].name # Blank)
          <=> ~ \E j \in DOMAIN E(i) : E(i)[j].name = Var /\ Clashes(Names(E(i)))
    <3> DEFINE ti == T(i)
               ei == E(i)
    <3>1. /\ Distinct(ei) /\ DOMAIN ti = DOMAIN ei /\ (\A j \in DOMAIN ei : ei[j].name # Blank)
          /\ \A j \in DOMAIN ei : ti[j].name = Replaced(ei[j].name)
      BY <1>3, <1>5, <2>1
    <3> HIDE DEF ti, ei
    <3>2. Distinct(ti) /\ (\A j \in DOMAIN ti : ti[j].name # Blank)
            <=> ~ \E j \in DOMAIN ei : ei[j].name = Var /\ Clashes(Names(ei))
      BY <1>1, <3>1, NamesReplaced
    <3> QED BY <3>2 DEF ti, ei
  <2>3. (\E j \in DOMAIN E(i) : E(i)[j].name = Var)
          <=> (\E k \in DOMAIN S(i) : ~ S(i)[k].off /\ S(i)[k].name = Var)
    BY <1>5
  <2> QED BY <2>2, <2>3
<1>8. ASSUME NEW i \in DOMAIN d
      PROVE  (\A j \in DOMAIN T(i) : T(i)[j].plugin # Blank)
               <=> ~ \E k \in DOMAIN S(i) :
                       ~ S(i)[k].off /\ S(i)[k].plugin = Var /\ value = Blank
  <2>1. ASSUME NEW j \in DOMAIN E(i)
        PROVE  T(i)[j].plugin = Blank <=> E(i)[j].plugin = Var /\ value = Blank
    <3>1. E(i)[j].plugin # Blank
      BY <1>3, <1>5
    <3> QED BY <1>3, <3>1 DEF Replaced
  <2>2. (\E j \in DOMAIN E(i) : E(i)[j].plugin = Var)
          <=> (\E k \in DOMAIN S(i) : ~ S(i)[k].off /\ S(i)[k].plugin = Var)
    BY <1>5
  <2>3. DOMAIN T(i) = DOMAIN E(i)
    BY <1>3
  <2> QED BY <2>1, <2>2, <2>3
<1>9. Takes(b) <=> /\ Distinct(b) /\ (\A i \in DOMAIN b : b[i].name # Blank)
                   /\ \A i \in DOMAIN d :
                        /\ T(i) # <<>>
                        /\ Distinct(T(i)) /\ (\A j \in DOMAIN T(i) : T(i)[j].name # Blank)
                        /\ \A j \in DOMAIN T(i) : T(i)[j].plugin # Blank
  BY <1>2 DEF Takes
<1>10. AllOff(d) <=> \E i \in DOMAIN d : \A j \in DOMAIN S(i) : S(i)[j].off
  BY DEF AllOff
<1>11. Collides(d) <=>
         \/ \E i \in DOMAIN d : d[i].name = Var /\ Clashes(Names(d))
         \/ \E i \in DOMAIN d :
              \/ \E k \in DOMAIN S(i) :
                   ~ S(i)[k].off /\ S(i)[k].name = Var /\ Clashes(Names(E(i)))
              \/ \E k \in DOMAIN S(i) :
                   ~ S(i)[k].off /\ S(i)[k].plugin = Var /\ value = Blank
  BY DEF Collides, E
<1> HIDE DEF T, S
<1>12. ~ Takes(b) <=> AllOff(d) \/ Collides(d)
  BY <1>4, <1>6, <1>7, <1>8, <1>9, <1>10, <1>11
<1> QED BY <1>12 DEF b

-----------------------------------------------------------------------------

\* The inductive invariant.
DocInv ==
  /\ doc \in Seq(Stages)
  /\ phase \in {"sent", "saved", "refused", "built", "taken", "rejected"}
  /\ phase \in {"saved", "built", "taken", "rejected"} => Check(doc)
  /\ phase \in {"built", "taken", "rejected"} => build = Built(doc)
  /\ phase \in {"taken", "rejected"} => (phase = "taken" <=> Takes(build))

\* The description does not change on its way, what was saved passed the check of
\* bean.Pipeline, what was built is preBuild's build of it, and BuildTask.check decided
\* whether it was taken.
THEOREM DocInvariant == DescriptionSpec => []DocInv
<1>1. DescriptionInit => DocInv
  BY DescriptionShape DEF DescriptionInit, DocInv, DescriptionShape
<1>2. DocInv /\ [DescriptionNext]_descriptionVars => DocInv'
  <2> SUFFICES ASSUME DocInv, [DescriptionNext]_descriptionVars
               PROVE  DocInv'
    OBVIOUS
  <2>1. doc' = doc /\ value' = value
    BY DEF DescriptionNext, Save, Run, Take, descriptionVars
  <2>2. Check(doc') = Check(doc) /\ Built(doc)' = Built(doc)
    BY <2>1 DEF Built, Replaced
  <2>3. CASE Save
    BY <2>1, <2>2, <2>3 DEF DocInv, Save
  <2>4. CASE Run
    BY <2>1, <2>2, <2>4 DEF DocInv, Run
  <2>5. CASE Take
    BY <2>1, <2>2, <2>5 DEF DocInv, Take
  <2>6. CASE UNCHANGED descriptionVars
    BY <2>1, <2>2, <2>6 DEF DocInv, descriptionVars
  <2> QED BY <2>3, <2>4, <2>5, <2>6 DEF DescriptionNext
<1> QED BY <1>1, <1>2, PTL DEF DescriptionSpec

\* For every description and value of the variable: one that was saved is rejected by the
\* engine exactly when all steps of a stage are disabled or the variable made names clash.
THEOREM RejectedForGoodReason == DescriptionSpec => []RejectedForReason
<1>1. DocInv => RejectedForReason
  BY RejectedIff DEF DocInv, RejectedForReason
<1> QED BY <1>1, DocInvariant, PTL

\* For every description and value of the variable: in a build the engine took, a wait
\* finds no step only if none of that name stands in the stage, it is disabled, or the
\* name is the variable, which preBuild replaces in names and not in waits.
THEOREM DanglingForGoodReason == DescriptionSpec => []DanglingForReason
<1>1. DocInv => DanglingForReason
  <2> SUFFICES ASSUME DocInv, phase = "taken", NEW i \in DOMAIN build,
                      NEW j \in DOMAIN build[i].steps,
                      NEW w \in Dangling(build[i], build[i].steps[j])
               PROVE  \/ w \notin Names(doc[i].steps)
                      \/ w = Var
                      \/ \E k \in DOMAIN doc[i].steps :
                           doc[i].steps[k].name = w /\ doc[i].steps[k].off
    BY DEF DanglingForReason
  <2>1. doc \in Seq(Stages) /\ Check(doc) /\ build = Built(doc) /\ i \in DOMAIN doc
    BY DEF DocInv, Built
  <2> DEFINE steps == doc[i].steps
             on == Enabled(steps)
  <2>2. ASSUME NEW k \in DOMAIN steps, steps[k].name = w, w # Var, ~ steps[k].off
        PROVE  FALSE
    <3>1. /\ Kept(on, steps, Len(steps)) /\ DOMAIN steps = 1 .. Len(steps)
          /\ DOMAIN build[i].steps = DOMAIN on
          /\ \A x \in DOMAIN on : build[i].steps[x].name = Replaced(on[x].name)
      BY <2>1, BuiltStage
    <3> HIDE DEF on
    <3>2. PICK x \in DOMAIN on : on[x] = steps[k]
      BY <2>2, <3>1 DEF Kept
    <3>3. build[i].steps[x].name = w
      BY <2>2, <3>1, <3>2 DEF Replaced
    <3> QED BY <3>1, <3>2, <3>3 DEF Dangling
  <2> QED BY <2>2 DEF Names
<1> QED BY <1>1, DocInvariant, PTL

-----------------------------------------------------------------------------
(* The variables of a build.                                               *)

\* The variables a description may name without harm: not redefined by it, and a text.
Settled == {m \in VarNames \ Given : stored[m].value \in Texts}

\* The variable n has what m was stored with.
HasOf(n, m) == vms[n].value = stored[m].value /\ vms[n].secret = stored[m].secret

\* What the map of convertVar may hold for a name.
VarRecord == [value : VarValues, secret : BOOLEAN, known : BOOLEAN]

\* The settled variables keep their value through both loops; one of the description
\* that names one has it from its visit on, and its line once it is written.
VarsInv ==
  /\ stored \in [VarNames -> Vars]
  /\ given \in [VarNames -> VarValues \cup {Masked}]
  /\ vms \in [VarNames -> VarRecord]
  /\ executed \in [VarNames -> VarValues] /\ shown \in [VarNames -> VarValues \cup {Masked}]
  /\ loop \in {"given", "all", "lines"} /\ todo \subseteq VarNames
  /\ loop = "given" => todo \subseteq Given
  /\ \A m \in Settled : HasOf(m, m)
  /\ \A n \in Given : given[n] \in Settled => 
       /\ (loop # "given" \/ n \notin todo) => HasOf(n, given[n])
       /\ (loop = "lines" /\ n \notin todo) =>
            /\ executed[n] = stored[given[n]].value
            /\ shown[n] = IF stored[given[n]].secret THEN Masked ELSE stored[given[n]].value

\* Before the loops no variable of the description has been visited.
LEMMA VarsInitHolds == VarsInit => VarsInv
<1> SUFFICES ASSUME VarsInit PROVE VarsInv
  OBVIOUS
<1>1. Vars \subseteq VarRecord /\ Empty \in VarValues
  <2>1. Empty \in VarValues
    BY VarsShape DEF VarsShape, VarValues
  <2>2. NoVar \in VarRecord
    BY <2>1 DEF NoVar, VarRecord
  <2>3. [value : VarValues, secret : BOOLEAN, known : {TRUE}] \subseteq VarRecord
    BY DEF VarRecord
  <2> QED BY <2>1, <2>2, <2>3 DEF Vars
<1>2. /\ stored \in [VarNames -> Vars] /\ given \in [VarNames -> VarValues \cup {Masked}]
      /\ vms = stored /\ loop = "given" /\ todo = Given
      /\ shown = [n \in VarNames |-> Empty] /\ executed = [n \in VarNames |-> Empty]
  BY VarsShape DEF VarsInit, VarsShape
<1>3. Given \subseteq VarNames
  BY DEF Given
<1> QED BY <1>1, <1>2, <1>3 DEF VarsInv, Settled, HasOf

\* One variable is visited by a loop of convertVar: it gets the value v and the flag s.
LEMMA VisitStep ==
  ASSUME VarsInv, loop \in {"given", "all"},
         NEW n \in todo, NEW v \in VarValues, NEW s \in BOOLEAN,
         vms' = [vms EXCEPT ![n] = [value |-> v, secret |-> s, known |-> TRUE]],
         todo' = todo \ {n}, UNCHANGED <<stored, given, loop, shown, executed>>,
         n \in Settled => v = stored[n].value /\ s = stored[n].secret,
         n \in Given /\ given[n] \in Settled
           => v = stored[given[n]].value /\ s = stored[given[n]].secret
  PROVE  VarsInv'
<1>1. n \in VarNames /\ Given' = Given /\ Settled' = Settled
  BY DEF VarsInv, Given, Settled
<1>2. /\ vms' \in [VarNames -> VarRecord]
      /\ vms'[n].value = v /\ vms'[n].secret = s
      /\ \A m \in VarNames : m # n => vms'[m] = vms[m]
  BY <1>1 DEF VarsInv, VarRecord
<1>3. \A m \in Settled : HasOf(m, m)'
  BY <1>1, <1>2 DEF VarsInv, HasOf, Settled
<1>4. ASSUME NEW k \in Given, given[k] \in Settled, loop # "given" \/ k \notin todo'
      PROVE  HasOf(k, given[k])'
  <2>1. k \in VarNames
    BY DEF Given
  <2>2. CASE k = n
    BY <1>2, <1>4, <2>2 DEF HasOf
  <2>3. CASE k # n
    <3>1. HasOf(k, given[k])
      BY <1>4, <2>3 DEF VarsInv
    <3> QED BY <1>2, <2>1, <2>3, <3>1 DEF HasOf
  <2> QED BY <2>2, <2>3
<1> QED BY <1>1, <1>2, <1>3, <1>4 DEF VarsInv

\* Every step of convertVar and of genRunjob keeps the invariant: the second loop finds
\* a text where the first one or the database put it, and leaves it there.
LEMMA VarsStep ==
  ASSUME VarsInv, [VarsNext]_varsVars
  PROVE  VarsInv'
<1>1. VarNames \cap Texts = {}
  BY VarsShape DEF VarsShape
<1>2. ASSUME NEW n \in VarNames, TakeGiven(n) PROVE VarsInv'
  <2>1. n \in todo /\ loop = "given" /\ given[n] \in VarValues /\ n \in Given /\ n \notin Settled
    BY <1>2 DEF TakeGiven, VarsInv, Given, Settled
  <2>2. Shown(given[n]) \in VarValues /\ NamesSecret(given[n]) \in BOOLEAN
    BY <2>1 DEF Shown, NamesSecret, VarsInv, VarRecord
  <2>3. given[n] \in Settled => /\ Shown(given[n]) = stored[given[n]].value
                                /\ NamesSecret(given[n]) = stored[given[n]].secret
    <3> SUFFICES ASSUME given[n] \in Settled
                 PROVE  /\ Shown(given[n]) = stored[given[n]].value
                        /\ NamesSecret(given[n]) = stored[given[n]].secret
      OBVIOUS
    <3>1. given[n] \in VarNames /\ HasOf(given[n], given[n])
      BY DEF Settled, VarsInv
    <3>2. vms[given[n]].secret \in BOOLEAN
      BY <3>1 DEF VarsInv, VarRecord
    <3> QED BY <3>1, <3>2 DEF Shown, NamesSecret, HasOf
  <2> QED BY <1>2, <2>1, <2>2, <2>3, VisitStep DEF TakeGiven
<1>3. ASSUME NEW n \in VarNames, ResolveVar(n) PROVE VarsInv'
  <2>1. n \in todo /\ loop = "all"
    BY <1>3 DEF ResolveVar
  <2>2. Shown(vms[n].value) \in VarValues /\ vms[n].secret \in BOOLEAN
    BY DEF Shown, VarsInv, VarRecord
  <2>3. ASSUME NEW m \in Settled, HasOf(n, m)
        PROVE  Shown(vms[n].value) = stored[m].value /\ vms[n].secret = stored[m].secret
    BY <1>1, <2>3 DEF HasOf, Settled, Shown
  <2>4. n \in Settled => Shown(vms[n].value) = stored[n].value /\ vms[n].secret = stored[n].secret
    BY <2>3 DEF VarsInv
  <2>5. n \in Given /\ given[n] \in Settled
          => /\ Shown(vms[n].value) = stored[given[n]].value
             /\ vms[n].secret = stored[given[n]].secret
    BY <2>1, <2>3 DEF VarsInv
  <2> QED BY <1>3, <2>1, <2>2, <2>4, <2>5, VisitStep DEF ResolveVar
<1>4. CASE NextLoop
  BY <1>4 DEF NextLoop, VarsInv, Given, Settled, HasOf
<1>5. ASSUME NEW n \in VarNames, WriteLine(n) PROVE VarsInv'
  <2>1. /\ loop = "lines" /\ loop' = "lines" /\ n \in todo /\ todo' = todo \ {n}
        /\ UNCHANGED <<stored, given, vms>>
        /\ Given' = Given /\ Settled' = Settled /\ Given \subseteq VarNames
    BY <1>5 DEF WriteLine, Given, Settled
  <2>2. vms[n].value \in VarValues /\ vms[n].secret \in BOOLEAN
    BY DEF VarsInv, VarRecord
  <2>3. /\ executed' \in [VarNames -> VarValues]
        /\ shown' \in [VarNames -> VarValues \cup {Masked}]
        /\ executed'[n] = vms[n].value
        /\ shown'[n] = IF vms[n].secret THEN Masked ELSE vms[n].value
        /\ \A k \in VarNames : k # n => executed'[k] = executed[k] /\ shown'[k] = shown[k]
    BY <1>5, <2>2 DEF WriteLine, VarsInv
  <2>4. ASSUME NEW k \in Given, given[k] \in Settled, k \notin todo'
        PROVE  /\ executed'[k] = stored[given[k]].value
               /\ shown'[k] = IF stored[given[k]].secret THEN Masked ELSE stored[given[k]].value
    <3>1. CASE k = n
      <4>1. HasOf(n, given[n])
        BY <2>1, <2>4, <3>1 DEF VarsInv
      <4> QED BY <2>3, <3>1, <4>1 DEF HasOf
    <3>2. CASE k # n
      BY <2>1, <2>3, <2>4, <3>2 DEF VarsInv
    <3> QED BY <3>1, <3>2
  <2>5. /\ \A m \in Settled : HasOf(m, m)'
        /\ \A k \in Given : given[k] \in Settled => HasOf(k, given[k])'
    BY <2>1 DEF VarsInv, HasOf
  <2> QED BY <2>1, <2>3, <2>4, <2>5 DEF VarsInv
<1>6. CASE UNCHANGED varsVars
  BY <1>6 DEF varsVars, VarsInv, Given, Settled, HasOf
<1> QED BY <1>2, <1>3, <1>4, <1>5, <1>6 DEF VarsNext

\* In whatever order the two loops visit the map, the settled variables keep what they
\* were stored with, and what names one of them has it from its visit on.
THEOREM VarsInvariant == VarsSpec => []VarsInv
BY VarsInitHolds, VarsStep, PTL DEF VarsSpec

\* For every set of variables and every order of the loops: a variable of the description
\* that names a settled one of the organisation or the pipeline reaches the runner with
\* its text, and its recorded line is masked exactly when the named one is secret.
THEOREM NamedAreResolved == VarsSpec => []NamedIsResolved
<1>1. VarsInv => NamedIsResolved
  <2> SUFFICES ASSUME VarsInv, NEW n \in Given, loop = "lines", n \notin todo,
                      given[n] \in VarNames \ Given, stored[given[n]].value \in Texts
               PROVE  /\ executed[n] = stored[given[n]].value
                      /\ shown[n] = IF stored[given[n]].secret THEN Masked ELSE stored[given[n]].value
    BY DEF NamedIsResolved
  <2> QED BY DEF VarsInv, Settled
<1> QED BY <1>1, VarsInvariant, PTL

-----------------------------------------------------------------------------
(* Webhooks: from the delivery over what its parser makes of it to the     *)
(* build.                                                                  *)

\* What a parser makes of a delivery when it takes it: h is not an error, the key
\* fits, and the commit and the branch are those of the delivery.
FitsCommit(host, e, h) ==
  \/ ShaOf(h) \in Commits
  \/ host \in {"gitlab", "gitee"} /\ e.kind = "push" /\ e.after = ZeroSha
  \/ host \in {"gitlab", "gitee"} /\ e.kind = "comment" /\ OnIssue(e)
  \/ host = "github" /\ e.kind = "comment" /\ e.answer # "found"

FitsBranch(e, h) ==
  \/ h.repo.branch = NoRef
  \/ /\ e.kind = "push"
     /\ h.repo.branch = e.ref \/ (Len(e.ref) > 2 /\ h.repo.branch = <<e.ref[3]>>)
  \/ e.kind # "push" /\ h.repo.branch = e.head.ref

Fits(host, e, h) == h # NoHook /\ FitsCommit(host, e, h) /\ FitsBranch(e, h)

\* What the parser for GitHub makes of a delivery it does not refuse fits the delivery,
\* and the key of the signature was the secret of the trigger.
LEMMA GithubFits ==
  ASSUME NEW e, HostTells(e), NEW sig, NEW secret, NEW h,
         h = github!Parse(Header("github", e.kind), e, sig, secret), h # Failed
  PROVE  sig.key = secret /\ Fits("github", e, h)
<1>0. github!Failed = Failed
  BY DEF github!Failed, Failed
<1>1. sig.key = secret
  BY <1>0 DEF github!Parse, github!validatePrefix
<1>2. CASE e.kind = "push"
  <2>1. h = github!parsePushHook(e)
    BY <1>0, <1>2 DEF github!Parse, Header
  <2>2. /\ e.commits # <<>>
        /\ h = PushHook(e.ref,
                        Repository(e.ref, e.after, BranchOf(e.ref, e.ref), e.repo, e.repo), e.after)
    BY <1>0, <2>1 DEF github!parsePushHook, github!convertPushHook,
       github!githubPushHook, github!PushHook, PushHook, github!Repository, Repository,
       github!BranchOf, BranchOf
  <2>3. h.type = "push" /\ h.after = e.after /\ h.repo.branch = BranchOf(e.ref, e.ref)
    BY <2>2 DEF PushHook, Repository
  <2>4. h # NoHook
    BY <2>3 DEF NoHook
  <2> QED BY <1>2, <1>1, <2>2, <2>3, <2>4 DEF Fits, FitsCommit, FitsBranch, ShaOf,
             BranchOf, HostTells
<1>3. CASE e.kind = "pr"
  <2>1. h = github!parsePullRequestHook(e)
    BY <1>0, <1>3 DEF github!Parse, Header
  <2>2. h.type = "pr" /\ h.base.sha = e.base.sha /\ h.repo.branch = e.head.ref
    <3> DEFINE gp(a) == [github!githubPRHook(e) EXCEPT !.Action = a]
    <3>1. PICK a : h = github!convertPullRequestHook(gp(a))
      BY <1>0, <2>1 DEF github!parsePullRequestHook
    <3>2. gp(a).PullRequest = [Head |-> e.head, Base |-> e.base]
      BY DEF github!githubPRHook
    <3> HIDE DEF gp
    <3> QED BY <3>1, <3>2 DEF github!convertPullRequestHook, github!PullRequestHook,
               github!Repository, github!Reference
  <2>4. h # NoHook
    BY <2>2 DEF NoHook
  <2> QED BY <1>3, <1>1, <2>2, <2>4 DEF Fits, FitsCommit, FitsBranch, ShaOf, HostTells
<1>4. CASE e.kind = "comment"
  <2>1. h = github!parseCommentHook(e)
    BY <1>0, <1>4 DEF github!Parse, Header
  <2>2. ~ OnIssue(e)
    BY <1>0, <2>1 DEF github!parseCommentHook, github!convertCommentHook,
       github!githubCommentHook, github!UrlFails, OnIssue, NoSide, Side, github!OnIssue,
       github!NoSide, github!Side, NoRef, github!NoRef
  <2>3. /\ h.type = "comment"
        /\ e.answer = "found" => h.base.sha = e.base.sha /\ h.repo.branch = e.head.ref
        /\ e.answer # "found" => h.repo.branch = NoRef
    <3> DEFINE gp == github!githubCommentHook(e)
               pr == github!githubPullRequestURL(e, e.answer)
    <3>1. gp.Issue.Url = e.answer
      BY <2>2 DEF github!githubCommentHook, OnIssue, NoSide, Side, github!OnIssue,
         github!NoSide, github!Side, NoRef, github!NoRef
    <3>2. h = github!convertCommentHook(gp, e)
      BY <2>1 DEF github!parseCommentHook
    <3>3. /\ e.answer = "found" => pr.Head = e.head /\ pr.Base = e.base
          /\ e.answer # "found" => pr.Head.ref = NoRef
      BY DEF github!githubPullRequestURL, github!NoSide, github!Side, NoRef,
         github!NoRef
    <3> HIDE DEF gp, pr
    <3> QED BY <1>0, <3>1, <3>2, <3>3 DEF github!convertCommentHook,
               github!PullRequestCommentHook, github!Repository, github!Reference, pr
  <2>4. h # NoHook
    BY <2>3 DEF NoHook
  <2> QED BY <1>4, <1>1, <2>2, <2>3, <2>4 DEF Fits, FitsCommit, FitsBranch, ShaOf,
             HostTells, OnIssue
<1>5. CASE e.kind \notin {"push", "pr", "comment"}
  BY <1>0, <1>5 DEF github!Parse, Header
<1> QED BY <1>1, <1>2, <1>3, <1>4, <1>5

\* The same for Gitea, whose parser refuses every comment.
LEMMA GiteaFits ==
  ASSUME NEW e, HostTells(e), NEW sig, NEW secret, NEW h,
         h = gitea!Parse(Header("gitea", e.kind), e, sig, secret), h # Failed
  PROVE  sig.key = secret /\ Fits("gitea", e, h)
<1>0. gitea!Failed = Failed
  BY DEF gitea!Failed, Failed
<1>1. sig.key = secret
  BY <1>0 DEF gitea!Parse, gitea!validatePrefix
<1>2. CASE e.kind = "push"
  <2>1. h = gitea!parsePushHook(e)
    BY <1>0, <1>2 DEF gitea!Parse, Header
  <2>2. /\ e.commits # <<>>
        /\ h = PushHook(e.ref,
                        Repository(e.ref, e.after, BranchOf(e.ref, NoRef), e.repo, e.repo), e.after)
    BY <1>0, <2>1 DEF gitea!parsePushHook, gitea!convertPushHook, gitea!giteaPushHook,
         gitea!PushHook, PushHook, gitea!Repository, Repository, gitea!BranchOf, BranchOf,
         gitea!NoRef, NoRef
  <2>3. h.type = "push" /\ h.after = e.after /\ h.repo.branch = BranchOf(e.ref, NoRef)
    BY <2>2 DEF PushHook, Repository
  <2>4. h # NoHook
    BY <2>3 DEF NoHook
  <2> QED BY <1>2, <1>1, <2>2, <2>3, <2>4 DEF Fits, FitsCommit, FitsBranch, ShaOf,
             BranchOf, HostTells
<1>3. CASE e.kind = "pr"
  <2>1. h = gitea!parsePullRequestHook(e)
    BY <1>0, <1>3 DEF gitea!Parse, Header
  <2>2. h.type = "pr" /\ h.base.sha = e.base.sha /\ h.repo.branch = e.head.ref
    <3> DEFINE gp(a) == [gitea!giteaPRHook(e) EXCEPT !.Action = a]
    <3>1. PICK a : h = gitea!convertPullRequestHook(gp(a))
      BY <1>0, <2>1 DEF gitea!parsePullRequestHook
    <3>2. gp(a).PullRequest = [Head |-> e.head, Base |-> e.base]
      BY DEF gitea!giteaPRHook
    <3> HIDE DEF gp
    <3> QED BY <3>1, <3>2 DEF gitea!convertPullRequestHook, gitea!PullRequestHook,
                gitea!Repository, gitea!Reference
  <2>3. h # NoHook
    BY <2>2 DEF NoHook
  <2> QED BY <1>3, <1>1, <2>2, <2>3 DEF Fits, FitsCommit, FitsBranch, ShaOf, HostTells
<1>4. CASE e.kind \notin {"push", "pr"}
  BY <1>0, <1>4 DEF gitea!Parse, Header, gitea!parseCommentHook,
     gitea!convertCommentHook
<1> QED BY <1>1, <1>2, <1>3, <1>4


\* The same for GitLab, whose parser takes pushes without commits and comments on issues.
LEMMA GitlabFits ==
  ASSUME NEW e, HostTells(e), NEW sig, NEW secret, NEW h,
         h = gitlab!Parse(Header("gitlab", e.kind), e, sig, secret), h # Failed
  PROVE  sig.key = secret /\ Fits("gitlab", e, h)
<1>0. gitlab!Failed = Failed
  BY DEF gitlab!Failed, Failed
<1>1. sig.key = secret
  BY <1>0 DEF gitlab!Parse
<1>2. CASE e.kind = "push"
  <2>1. h = gitlab!parsePushHook(e)
    BY <1>0, <1>2 DEF gitlab!Parse, Header
  <2>2. h = PushHook(e.ref,
                     Repository(e.ref, e.after, BranchOf(e.ref, NoRef), e.repo, e.repo), e.after)
    BY <2>1 DEF gitlab!parsePushHook, gitlab!convertPushHook, gitlab!gitlabPushHook,
       gitlab!PushHook, PushHook, gitlab!Repository, Repository, gitlab!BranchOf,
       BranchOf, gitlab!NoRef, NoRef
  <2>3. h.type = "push" /\ h.after = e.after /\ h.repo.branch = BranchOf(e.ref, NoRef)
    BY <2>2 DEF PushHook, Repository
  <2>4. h # NoHook
    BY <2>3 DEF NoHook
  <2> QED BY <1>2, <1>1, <2>3, <2>4 DEF Fits, FitsCommit, FitsBranch, ShaOf, BranchOf,
             HostTells
<1>3. CASE e.kind = "pr"
  <2>1. h = gitlab!parsePullRequestHook(e)
    BY <1>0, <1>3 DEF gitlab!Parse, Header
  <2>2. h.type = "pr" /\ h.base.sha \in {e.head.sha, e.base.sha} /\ h.repo.branch = e.head.ref
    <3>1. h = gitlab!convertPullRequestHook(gitlab!gitlabPRHook(e))
      BY <1>0, <2>1 DEF gitlab!parsePullRequestHook
    <3> QED BY <3>1 DEF gitlab!convertPullRequestHook, gitlab!gitlabPRHook,
               gitlab!PullRequestHook, gitlab!Repository, gitlab!Reference
  <2>3. h # NoHook
    BY <2>2 DEF NoHook
  <2> QED BY <1>3, <1>1, <2>2, <2>3 DEF Fits, FitsCommit, FitsBranch, ShaOf, HostTells
<1>4. CASE e.kind = "comment"
  <2>1. h = gitlab!parseCommentHook(e)
    BY <1>0, <1>4 DEF gitlab!Parse, Header
  <2>2. h.type = "comment" /\ h.base.sha \in {e.head.sha, e.base.sha} /\ h.repo.branch = e.head.ref
    BY <2>1 DEF gitlab!parseCommentHook, gitlab!convertCommentHook,
       gitlab!gitlabCommentHook, gitlab!PullRequestCommentHook, gitlab!Repository,
       gitlab!Reference
  <2>3. h # NoHook
    BY <2>2 DEF NoHook
  <2> QED BY <1>4, <1>1, <2>2, <2>3 DEF Fits, FitsCommit, FitsBranch, ShaOf, HostTells,
             OnIssue
<1>5. CASE e.kind \notin {"push", "pr", "comment"}
  BY <1>0, <1>5 DEF gitlab!Parse, Header
<1> QED BY <1>1, <1>2, <1>3, <1>4, <1>5


\* The same for Gitee.
LEMMA GiteeFits ==
  ASSUME NEW e, HostTells(e), NEW sig, NEW secret, NEW h,
         h = gitee!Parse(Header("gitee", e.kind), e, sig, secret), h # Failed
  PROVE  sig.key = secret /\ Fits("gitee", e, h)
<1>0. gitee!Failed = Failed
  BY DEF gitee!Failed, Failed
<1>1. sig.key = secret
  BY <1>0 DEF gitee!Parse
<1>2. CASE e.kind = "push"
  <2>1. h = gitee!parsePushHook(e)
    BY <1>0, <1>2 DEF gitee!Parse, Header
  <2>2. h = PushHook(e.ref,
                     Repository(e.ref, e.after, BranchOf(e.ref, NoRef), e.repo, e.repo), e.after)
    BY <2>1 DEF gitee!parsePushHook, gitee!convertPushHook, gitee!giteePushHook,
       gitee!PushHook, PushHook, gitee!Repository, Repository, gitee!BranchOf, BranchOf,
       gitee!NoRef, NoRef
  <2>3. h.type = "push" /\ h.after = e.after /\ h.repo.branch = BranchOf(e.ref, NoRef)
    BY <2>2 DEF PushHook, Repository
  <2>4. h # NoHook
    BY <2>3 DEF NoHook
  <2> QED BY <1>2, <1>1, <2>3, <2>4 DEF Fits, FitsCommit, FitsBranch, ShaOf, BranchOf,
             HostTells
<1>3. CASE e.kind = "pr"
  <2>1. h = gitee!parsePullRequestHook(e)
    BY <1>0, <1>3 DEF gitee!Parse, Header
  <2>2. h.type = "pr" /\ h.base.sha \in {e.head.sha, e.base.sha} /\ h.repo.branch = e.head.ref
    <3>1. h = gitee!convertPullRequestHook(gitee!giteePRHook(e))
      BY <1>0, <2>1 DEF gitee!parsePullRequestHook
    <3> QED BY <3>1 DEF gitee!convertPullRequestHook, gitee!giteePRHook,
               gitee!PullRequestHook, gitee!Repository, gitee!Reference
  <2>3. h # NoHook
    BY <2>2 DEF NoHook
  <2> QED BY <1>3, <1>1, <2>2, <2>3 DEF Fits, FitsCommit, FitsBranch, ShaOf, HostTells
<1>4. CASE e.kind = "comment"
  <2>1. h = gitee!parseCommentHook(e)
    BY <1>0, <1>4 DEF gitee!Parse, Header
  <2>2. h.type = "comment" /\ h.base.sha \in {e.head.sha, e.base.sha} /\ h.repo.branch = e.head.ref
    BY <2>1 DEF gitee!parseCommentHook, gitee!convertCommentHook,
       gitee!giteeCommentHook, gitee!PullRequestCommentHook, gitee!Repository,
       gitee!Reference
  <2>3. h # NoHook
    BY <2>2 DEF NoHook
  <2> QED BY <1>4, <1>1, <2>2, <2>3 DEF Fits, FitsCommit, FitsBranch, ShaOf, HostTells,
             OnIssue
<1>5. CASE e.kind \notin {"push", "pr", "comment"}
  BY <1>0, <1>5 DEF gitee!Parse, Header
<1> QED BY <1>1, <1>2, <1>3, <1>4, <1>5


\* The same for parseHook, whichever parser the trigger names: the headers of another
\* host are refused by each of them.
LEMMA ParserFits ==
  ASSUME NEW d \in Deliveries, NEW hookType, NEW secret, NEW h,
         h = parseHook(hookType, d, secret), h # Failed
  PROVE  d.key = secret /\ Fits(d.host, d.what, h)
<1> DEFINE host == IF hookType = "giteepremium" THEN "gitee" ELSE hookType
           header == IF d.host = host THEN Header(host, d.what.kind) ELSE NoText
           sig == [digest |-> d.digest, key |-> IF d.host = host THEN d.key ELSE NoText]
<1>1. h = CASE host = "gitee" -> gitee!Parse(header, d.what, sig, secret)
            [] host = "github" -> github!Parse(header, d.what, sig, secret)
            [] host = "gitlab" -> gitlab!Parse(header, d.what, sig, secret)
            [] host = "gitea" -> gitea!Parse(header, d.what, sig, secret)
            [] OTHER -> Failed
  BY DEF parseHook
<1>2. HostTells(d.what) /\ sig.key = IF d.host = host THEN d.key ELSE NoText
  BY WebhooksShape DEF WebhooksShape
<1>3. d.host # host => header = ""
  BY DEF NoText
<1> HIDE DEF host, header, sig
<1>4. ASSUME header = "" PROVE h = Failed
  BY <1>1, <1>4 DEF gitee!Parse, github!Parse, gitlab!Parse, gitea!Parse,
       gitee!Failed, github!Failed, gitlab!Failed, gitea!Failed, Failed
<1>5. d.host = host
  BY <1>3, <1>4
<1>6. header = Header(d.host, d.what.kind) /\ sig.key = d.key
  BY <1>2, <1>5 DEF header
<1>7. CASE d.host = "gitee"
  BY <1>1, <1>2, <1>5, <1>6, <1>7, GiteeFits
<1>8. CASE d.host = "github"
  BY <1>1, <1>2, <1>5, <1>6, <1>8, GithubFits
<1>9. CASE d.host = "gitlab"
  BY <1>1, <1>2, <1>5, <1>6, <1>9, GitlabFits
<1>10. CASE d.host = "gitea"
  BY <1>1, <1>2, <1>5, <1>6, <1>10, GiteaFits
<1> QED BY <1>1, <1>5, <1>7, <1>8, <1>9, <1>10

-----------------------------------------------------------------------------
(* The call.                                                               *)

\* What a call may carry.
Brought == Deliveries \cup {[host |-> "web", key |-> s] : s \in WebSecrets}
ParsedOf(t, d) == parseHook(t.params.hookType, d, t.params.secret)
Tolds == {NoHook} \cup {ParsedOf(t, d) : t \in Triggers, d \in Deliveries}
Ats == {"check", "parse", "filter", "run", "record", "put", "answered"}
Call == [at : Ats, tt : Triggers, brings : Brought, told : Tolds, error : BOOLEAN,
         version : BOOLEAN]

\* The secret of the call was compared, and what was told, if it was told, is what the
\* parser of the trigger's host made of the delivery.
ToldFits(c) ==
  c.told # NoHook => ~ IsWeb(c) /\ c.told = ParsedOf(c.tt, c.brings) /\ c.told # Failed

\* The filter, or for TriggerWeb the secret, let the call pass.
MayBuild(c) ==
  IF IsWeb(c) THEN c.told = NoHook
  ELSE c.told # NoHook /\ c.tt.params.branch \in {NoRef, c.told.repo.branch}

\* What is known of a call at each place.
CallFits(c) ==
  /\ ToldFits(c)
  /\ c.at \in {"check", "parse"} => c.told = NoHook
  /\ c.at = "filter" => ~ IsWeb(c) /\ c.told # NoHook
  /\ c.at \in {"check", "parse", "filter", "run"} => ~ c.error /\ ~ c.version
  /\ c.at = "run" => MayBuild(c)
  /\ c.at \in {"record", "put", "answered"} =>
       (c.version <=> ~ c.error) /\ (~ c.error => MayBuild(c))

\* The build of a call that was answered.
BuildOf(c) == IF c.error THEN {} ELSE {IF IsWeb(c) THEN c.tt.params.branch ELSE ShaOf(c.told)}

\* The inductive invariant.
HookInv ==
  /\ trigger \subseteq Triggers
  /\ \/ hookCall.at \in {"none", "unknown"}
     \/ hookCall \in Call /\ CallFits(hookCall)
  /\ runRow.state = "row" => /\ hookCall.at \in {"put", "answered"}
                             /\ runRow.error = hookCall.error /\ runRow.version = hookCall.version
                             /\ runRow.infos = hookCall.told
  /\ hookBuild = IF hookCall.at = "answered" THEN BuildOf(hookCall) ELSE {}

\* Before the first call nothing was put and no row written.
LEMMA HookInit == WebhooksInit => HookInv
BY DEF WebhooksInit, HookInv, NoRow

\* A step that takes the call on.
LEMMA CallStep ==
  ASSUME HookInv, hookCall \in Call, hookCall.at \in {"check", "parse", "filter", "run"},
         NEW c \in Call, hookCall' = c, CallFits(c), c.at # "answered",
         UNCHANGED <<trigger, runRow, hookBuild>>
  PROVE  HookInv'
<1>1. runRow.state # "row"
  BY DEF HookInv
<1>2. hookBuild = {}
  BY DEF HookInv
<1> QED BY <1>1, <1>2 DEF HookInv

\* Every step of a call, the deletion of the trigger in between and a change of the
\* permissions keep the invariant.
LEMMA HookStep ==
  ASSUME HookInv, [WebhooksNext]_webhooksVars
  PROVE  HookInv'
<1> DEFINE c == hookCall
<1>1. /\ c.at \in Ats => c \in Call /\ CallFits(c)
      /\ trigger \subseteq Triggers
  BY DEF HookInv, Ats
<1>2. ASSUME NEW b \in Brought, Called(b) PROVE HookInv'
  <2>1. CASE \E t \in trigger : t.enabled
    <3>1. PICK t \in trigger :
            hookCall' = [at |-> "check", tt |-> t, brings |-> b, told |-> NoHook,
                         error |-> FALSE, version |-> FALSE]
      BY <1>2, <2>1 DEF Called
    <3>2. /\ hookCall' \in Call /\ hookCall'.at = "check" /\ hookCall'.told = NoHook
          /\ ~ hookCall'.error /\ ~ hookCall'.version
      BY <1>1, <3>1 DEF Call, Ats, Tolds
    <3>3. CallFits(hookCall')
      BY <3>2 DEF CallFits, ToldFits
    <3> QED BY <1>1, <1>2, <3>2, <3>3 DEF Called, HookInv
  <2>2. CASE ~ \E t \in trigger : t.enabled
    BY <1>1, <1>2, <2>2 DEF Called, HookInv
  <2> QED BY <2>1, <2>2
<1>3. ASSUME hookCall.at \in {"check", "parse", "filter", "run"}, hookCall' = Fails(c),
             UNCHANGED <<trigger, runRow, hookBuild>>
      PROVE  HookInv'
  <2>1. c \in Call /\ CallFits(c)
    BY <1>1, <1>3 DEF Ats
  <2>2. /\ Fails(c) \in Call /\ Fails(c).at = "record" /\ Fails(c).error
        /\ Fails(c).version = c.version /\ Fails(c).told = c.told /\ Fails(c).tt = c.tt
        /\ Fails(c).brings = c.brings
    BY <2>1 DEF Fails, Call, Ats
  <2>3. CallFits(Fails(c))
    BY <1>3, <2>1, <2>2 DEF CallFits, ToldFits, IsWeb
  <2> QED BY <1>3, <2>1, <2>2, <2>3, CallStep
<1>4. CASE CheckTrigger
  <2>1. CASE hookCall' = Fails(c)
    BY <1>3, <1>4, <2>1 DEF CheckTrigger
  <2>2. CASE hookCall' = [c EXCEPT !.at = "parse"]
    <3> DEFINE d == [c EXCEPT !.at = "parse"]
    <3>1. c.at = "check" /\ c \in Call /\ CallFits(c)
      BY <1>1, <1>4 DEF CheckTrigger, Ats
    <3>2. /\ d \in Call /\ d.at = "parse" /\ d.error = c.error
          /\ d.version = c.version /\ d.told = c.told /\ d.tt = c.tt /\ d.brings = c.brings
      BY <3>1 DEF Call, Ats
    <3> HIDE DEF d
    <3>3. CallFits(d)
      BY <3>1, <3>2 DEF CallFits, ToldFits, IsWeb
    <3>4. hookCall' = d
      BY <2>2 DEF d
    <3> QED BY <1>4, <3>1, <3>2, <3>3, <3>4, CallStep DEF CheckTrigger
  <2> QED BY <1>4, <2>1, <2>2 DEF CheckTrigger
<1>5. CASE ParseDelivery
  <2>1. CASE hookCall' = Fails(c)
    BY <1>3, <1>5, <2>1 DEF ParseDelivery
  <2>2. CASE hookCall' # Fails(c)
    <3> DEFINE h == ParsedOf(c.tt, c.brings)
               d == [c EXCEPT !.at = "filter", !.told = h]
    <3>1. c.at = "parse" /\ ~ IsWeb(c) /\ c \in Call /\ CallFits(c)
      BY <1>1, <1>5 DEF ParseDelivery, Ats
    <3>2. h # Failed /\ hookCall' = d
      BY <1>5, <2>2 DEF ParseDelivery, ParsedOf
    <3>3. c.tt \in Triggers /\ c.brings \in Deliveries
      BY <3>1 DEF Call, Brought, IsWeb
    <3>4. h \in Tolds
      BY <3>3 DEF Tolds
    <3> HIDE DEF h
    <3>5. /\ d \in Call /\ d.at = "filter" /\ d.error = c.error
          /\ d.version = c.version /\ d.told = h /\ d.tt = c.tt /\ d.brings = c.brings
      BY <3>1, <3>4 DEF Call, Ats
    <3>6. h # NoHook
      BY <3>2, <3>3, ParserFits DEF Fits, h, ParsedOf
    <3> HIDE DEF d
    <3>7. CallFits(d)
      BY <3>1, <3>2, <3>5, <3>6 DEF CallFits, ToldFits, IsWeb, h
    <3> QED BY <1>5, <3>1, <3>2, <3>5, <3>7, CallStep DEF ParseDelivery
  <2> QED BY <2>1, <2>2
<1>6. CASE CompareSecret \/ FilterDelivery
  <2>1. CASE hookCall' = Fails(c)
    BY <1>3, <1>6, <2>1 DEF CompareSecret, FilterDelivery
  <2>2. CASE hookCall' # Fails(c)
    <3> DEFINE d == [c EXCEPT !.at = "run"]
    <3>1. c.at \in {"parse", "filter"} /\ c \in Call /\ CallFits(c)
      BY <1>1, <1>6 DEF CompareSecret, FilterDelivery, Ats
    <3>2. hookCall' = d /\ UNCHANGED <<trigger, runRow, hookBuild>>
      BY <1>6, <2>2 DEF CompareSecret, FilterDelivery
    <3>3. MayBuild(c)
      BY <1>6, <2>2, <3>1 DEF CompareSecret, FilterDelivery, MayBuild, CallFits
    <3>4. /\ d \in Call /\ d.at = "run" /\ d.error = c.error
          /\ d.version = c.version /\ d.told = c.told /\ d.tt = c.tt /\ d.brings = c.brings
      BY <3>1 DEF Call, Ats
    <3> HIDE DEF d
    <3>5. CallFits(d)
      BY <3>1, <3>3, <3>4 DEF CallFits, ToldFits, IsWeb, MayBuild
    <3> QED BY <3>1, <3>2, <3>4, <3>5, CallStep
  <2> QED BY <2>1, <2>2
<1>7. CASE RunPipeline
  <2>1. CASE hookCall' = Fails(c)
    BY <1>3, <1>7, <2>1 DEF RunPipeline
  <2>2. CASE hookCall' # Fails(c)
    <3> DEFINE d == [c EXCEPT !.at = "record", !.version = TRUE]
    <3>1. c.at = "run" /\ c \in Call /\ CallFits(c)
      BY <1>1, <1>7 DEF RunPipeline, Ats
    <3>2. hookCall' = d /\ UNCHANGED <<trigger, runRow, hookBuild>>
      BY <1>7, <2>2 DEF RunPipeline
    <3>4. /\ d \in Call /\ d.at = "record" /\ d.error = c.error
          /\ d.version /\ d.told = c.told /\ d.tt = c.tt /\ d.brings = c.brings
      BY <3>1 DEF Call, Ats
    <3> HIDE DEF d
    <3>5. CallFits(d)
      BY <3>1, <3>4 DEF CallFits, ToldFits, IsWeb, MayBuild
    <3> QED BY <3>1, <3>2, <3>4, <3>5, CallStep
  <2> QED BY <2>1, <2>2
<1>8. ASSUME RecordRun \/ PutHookBuild PROVE HookInv'
  <2> DEFINE at == IF c.at = "record" THEN "put" ELSE "answered"
             d == [c EXCEPT !.at = at]
  <2>1. c.at \in {"record", "put"} /\ c \in Call /\ CallFits(c)
    BY <1>1, <1>8 DEF RecordRun, PutHookBuild, Ats
  <2>2. hookCall' = d /\ UNCHANGED trigger
    BY <1>8, <2>1 DEF RecordRun, PutHookBuild
  <2>3. /\ d \in Call /\ d.at = at /\ d.error = c.error
        /\ d.version = c.version /\ d.told = c.told /\ d.tt = c.tt /\ d.brings = c.brings
    BY <2>1 DEF Call, Ats
  <2> HIDE DEF d
  <2>4. CallFits(d) /\ BuildOf(d) = BuildOf(c)
    BY <2>1, <2>3 DEF CallFits, ToldFits, IsWeb, MayBuild, BuildOf
  <2>5. CASE RecordRun
    <3>1. runRow'.state = "row" => /\ runRow'.error = c.error /\ runRow'.version = c.version
                                   /\ runRow'.infos = c.told
      BY <2>5 DEF RecordRun
    <3>2. at = "put" /\ hookBuild' = {}
      BY <2>5 DEF RecordRun, HookInv
    <3> QED BY <1>1, <2>2, <2>3, <2>4, <3>1, <3>2 DEF HookInv
  <2>6. CASE PutHookBuild
    <3>1. at = "answered" /\ hookBuild' = BuildOf(c) /\ runRow' = runRow
      BY <2>6 DEF PutHookBuild, BuildOf
    <3> QED BY <1>1, <2>2, <2>3, <2>4, <3>1 DEF HookInv
  <2> QED BY <1>8, <2>5, <2>6
<1>9. CASE DeleteTrigger
  BY <1>9 DEF DeleteTrigger, HookInv, NoRow
<1>10. CASE AccessChanges \/ UNCHANGED webhooksVars
  BY <1>10 DEF AccessChanges, webhooksVars, HookInv
<1> QED
  <2>1. \A d \in Deliveries : d \in Brought
    BY DEF Brought
  <2>2. \A x \in WebSecrets : [host |-> "web", key |-> x] \in Brought
    BY DEF Brought
  <2> QED BY <1>2, <1>4, <1>5, <1>6, <1>7, <1>8, <1>9, <1>10, <2>1, <2>2
          DEF WebhooksNext, HookCalled, WebCalled

\* What a call was told is what the parser made of its delivery, a call that may build
\* passed the filter or the secret, and row and build agree with its outcome.
THEOREM HookInvariant == WebhooksSpec => []HookInv
BY HookInit, HookStep, PTL DEF WebhooksSpec

\* What the invariant says of a build put for what a host told.
LEMMA BuildFits ==
  ASSUME HookInv, Builds
  PROVE  /\ hookBuild = {ShaOf(hookCall.told)}
         /\ Fits(hookCall.brings.host, hookCall.brings.what, hookCall.told)
         /\ hookCall.tt.params.branch \in {NoRef, hookCall.told.repo.branch}
<1> DEFINE c == hookCall
<1>1. c.at = "answered" /\ ~ c.error /\ ~ IsWeb(c) /\ hookBuild = {ShaOf(c.told)}
  BY DEF HookInv, Builds, BuildOf
<1>2. c \in Call /\ CallFits(c)
  BY <1>1 DEF HookInv
<1>3. MayBuild(c)
  BY <1>1, <1>2 DEF CallFits
<1>4. /\ c.told # NoHook /\ c.tt.params.branch \in {NoRef, c.told.repo.branch}
      /\ c.told = ParsedOf(c.tt, c.brings) /\ c.told # Failed
  BY <1>1, <1>2, <1>3 DEF MayBuild, CallFits, ToldFits
<1>5. c.brings \in Deliveries
  BY <1>1, <1>2 DEF Call, Brought, IsWeb
<1> QED BY <1>1, <1>4, <1>5, ParserFits DEF ParsedOf

\* For every trigger and delivery: a build put for a webhook has a commit, with the
\* exceptions the property names.
THEOREM HookBuildsHaveCommits == WebhooksSpec => []HookBuildHasCommit
<1>1. HookInv => HookBuildHasCommit
  <2> SUFFICES ASSUME HookInv, Builds
               PROVE  HookBuildHasCommit
    BY DEF HookBuildHasCommit
  <2> QED BY BuildFits DEF HookBuildHasCommit, Fits, FitsCommit
<1> QED BY <1>1, HookInvariant, PTL

\* For every trigger and delivery: a trigger with a branch builds only what happened on
\* it, or a push whose ref has it as third part.
THEOREM BranchesAreFiltered == WebhooksSpec => []BranchIsFiltered
<1>1. HookInv => BranchIsFiltered
  <2> SUFFICES ASSUME HookInv, Builds
               PROVE  BranchIsFiltered
    BY DEF BranchIsFiltered
  <2> QED BY BuildFits DEF BranchIsFiltered, Fits, FitsBranch
<1> QED BY <1>1, HookInvariant, PTL

\* For every trigger and delivery: the row of a call, when it was written and is there,
\* agrees with what was put and with what was answered.
THEOREM RowsTellOutcomes == WebhooksSpec => []RowTellsOutcome
<1>1. HookInv => RowTellsOutcome
  <2> SUFFICES ASSUME HookInv, hookCall.at = "answered", runRow.state = "row"
               PROVE  /\ runRow.error = (hookBuild = {})
                      /\ runRow.version = (hookBuild # {})
                      /\ runRow.infos # NoHook => hookCall.brings.key = hookCall.tt.params.secret
                      /\ Builds => runRow.infos # NoHook /\ hookBuild = {ShaOf(runRow.infos)}
    BY DEF RowTellsOutcome
  <2> DEFINE c == hookCall
  <2>1. /\ c \in Call /\ CallFits(c) /\ runRow.error = c.error /\ runRow.version = c.version
        /\ runRow.infos = c.told /\ hookBuild = BuildOf(c)
    BY DEF HookInv
  <2>2. c.error \in BOOLEAN /\ c.version \in BOOLEAN /\ (c.version <=> ~ c.error)
    BY <2>1 DEF Call, CallFits
  <2>3. c.error = (hookBuild = {}) /\ c.version = (hookBuild # {})
    BY <2>1, <2>2 DEF BuildOf
  <2>4. ASSUME c.told # NoHook PROVE c.brings.key = c.tt.params.secret
    <3>1. ~ IsWeb(c) /\ c.told = ParsedOf(c.tt, c.brings) /\ c.told # Failed
      BY <2>1, <2>4 DEF CallFits, ToldFits
    <3>2. c.brings \in Deliveries
      BY <2>1, <3>1 DEF Call, Brought, IsWeb
    <3> QED BY <3>1, <3>2, ParserFits DEF ParsedOf
  <2>5. Builds => c.told # NoHook /\ hookBuild = {ShaOf(c.told)}
    BY BuildFits DEF Fits
  <2> QED BY <2>1, <2>3, <2>4, <2>5
<1> QED BY <1>1, HookInvariant, PTL
=============================================================================
