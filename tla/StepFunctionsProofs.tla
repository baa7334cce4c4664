------------------------ MODULE StepFunctionsProofs ------------------------
(* Theorems about StepFunctions for every value of its constants. *)
EXTENDS StepFunctions, SequenceTheorems, TLAPS

(***************************************************************************)
(* Paths.  An interpreter is above another if its path is a proper prefix  *)
(* of the other's.                                                         *)
(***************************************************************************)

Path == Seq(Nat)

Above(p, q) == Len(p) < Len(q) /\ SubSeq(q, 1, Len(p)) = p

LEMMA Prefixes ==
  ASSUME NEW q \in Path, NEW n \in 0 .. Len(q)
  PROVE  /\ SubSeq(q, 1, n) \in Path /\ Len(SubSeq(q, 1, n)) = n
         /\ \A m \in 0 .. n : SubSeq(SubSeq(q, 1, n), 1, m) = SubSeq(q, 1, m)
         /\ n = Len(q) => SubSeq(q, 1, n) = q
<1>1. ASSUME NEW s \in Path, NEW m \in 0 .. Len(s)
      PROVE  /\ SubSeq(s, 1, m) \in Path /\ Len(SubSeq(s, 1, m)) = m
             /\ \A i \in 1 .. m : SubSeq(s, 1, m)[i] = s[i]
  <2>1. Len(s) \in Nat
    BY LenProperties DEF Path
  <2>2. \A i \in 1 .. m : i \in 1 .. Len(s)
    BY <2>1
  <2>. QED BY <2>1, <2>2, SubSeqProperties DEF Path
<1>2. ASSUME NEW m \in 0 .. n
      PROVE  SubSeq(SubSeq(q, 1, n), 1, m) = SubSeq(q, 1, m)
  <2> DEFINE r == SubSeq(q, 1, n)
  <2>1. /\ r \in Path /\ Len(r) = n /\ \A i \in 1 .. n : r[i] = q[i]
        /\ m \in 0 .. Len(q) /\ m \in 0 .. Len(r)
    BY <1>1, LenProperties DEF Path
  <2> HIDE DEF r
  <2>2. /\ SubSeq(r, 1, m) \in Path /\ Len(SubSeq(r, 1, m)) = m
        /\ \A i \in 1 .. m : SubSeq(r, 1, m)[i] = r[i]
    BY <1>1, <2>1
  <2>3. /\ SubSeq(q, 1, m) \in Path /\ Len(SubSeq(q, 1, m)) = m
        /\ \A i \in 1 .. m : SubSeq(q, 1, m)[i] = q[i]
    BY <1>1, <2>1
  <2>4. \A i \in 1 .. m : SubSeq(r, 1, m)[i] = SubSeq(q, 1, m)[i]
    BY <2>1, <2>2, <2>3
  <2>. QED BY <2>2, <2>3, <2>4, SeqEqual DEF r, Path
<1>3. ASSUME n = Len(q) PROVE SubSeq(q, 1, n) = q
  BY <1>1, <1>3, SeqEqual DEF Path
<1>. QED BY <1>1, <1>2, <1>3

LEMMA Branched ==
  ASSUME NEW p \in Path, NEW b \in Nat
  PROVE  /\ p \o <<b>> \in Path /\ Len(p \o <<b>>) = Len(p) + 1
         /\ (p \o <<b>>)[Len(p \o <<b>>)] = b
         /\ \A n \in 0 .. Len(p) : SubSeq(p \o <<b>>, 1, n) = SubSeq(p, 1, n)
<1> DEFINE q == p \o <<b>>
<1>1. /\ q \in Path /\ Len(q) = Len(p) + 1 /\ Len(p) \in Nat
      /\ \A i \in 1 .. Len(p) : q[i] = p[i]
      /\ q[Len(q)] = b
  <2>1. <<b>> \in Seq(Nat) /\ Len(<<b>>) = 1 /\ <<b>>[1] = b /\ Len(p) \in Nat
    BY LenProperties DEF Path
  <2>. QED BY <2>1, ConcatProperties DEF Path
<1> HIDE DEF q
<1>2. SubSeq(q, 1, Len(p)) = p
  <2>1. SubSeq(q, 1, Len(p)) \in Path /\ Len(SubSeq(q, 1, Len(p))) = Len(p)
    BY <1>1, Prefixes
  <2>2. \A i \in 1 .. Len(p) : SubSeq(q, 1, Len(p))[i] = p[i]
    BY SMTT(30), <1>1, SubSeqProperties DEF Path
  <2>. QED BY <2>1, <2>2, SeqEqual DEF Path
<1>3. \A n \in 0 .. Len(p) : SubSeq(q, 1, n) = SubSeq(p, 1, n)
  BY <1>1, <1>2, Prefixes
<1>. QED BY <1>1, <1>3 DEF q

(* What is above a branch is the interpreter it is a branch of, or above   *)
(* that.                                                                   *)
LEMMA AboveBranch ==
  ASSUME NEW p \in Path, NEW b \in Nat, NEW q \in Path, Above(q, p \o <<b>>)
  PROVE  q = p \/ Above(q, p)
<1>1. Len(q) \in 0 .. Len(p) /\ SubSeq(p, 1, Len(q)) = q
  BY Branched, LenProperties DEF Above, Path
<1>. QED BY <1>1, Prefixes DEF Above, Path

(***************************************************************************)
(* The interpreters of an execution form a tree: with one, every one above *)
(* it is there and joining.                                                *)
(***************************************************************************)

InterpreterOK(i) ==
    /\ {"definition", "at", "visited", "status"} \subseteq DOMAIN i
    /\ i.definition \in Definitions

Tree(I) ==
    /\ DOMAIN I \subseteq Path /\ <<>> \in DOMAIN I
    /\ \A q \in DOMAIN I : InterpreterOK(I[q])
    /\ \A q \in DOMAIN I : \A n \in 0 .. Len(q) : SubSeq(q, 1, n) \in DOMAIN I
    /\ \A p, q \in DOMAIN I : Above(p, q) => I[p].status = "joining"

LEMMA AboveInTree ==
  ASSUME NEW I, Tree(I), NEW q \in DOMAIN I, NEW r \in Path, Above(r, q)
  PROVE  r \in DOMAIN I
<1>1. Len(r) \in Nat /\ Len(q) \in Nat
  BY LenProperties DEF Path, Tree
<1>2. Len(r) < Len(q)
  BY DEF Above
<1>3. Len(r) \in 0 .. Len(q)
  BY <1>1, <1>2
<1>4. SubSeq(q, 1, Len(r)) = r
  BY DEF Above
<1>. QED BY <1>3, <1>4 DEF Tree

LEMMA TreeGoesOn ==
  ASSUME NEW I, Tree(I), NEW p \in DOMAIN I, I[p].status = "running",
         NEW J, DOMAIN J = DOMAIN I, InterpreterOK(J[p]),
         \A q \in DOMAIN I : q # p => J[q] = I[q]
  PROVE  Tree(J)
<1>1. \A q \in DOMAIN J : InterpreterOK(J[q])
  BY DEF Tree
<1>2. ASSUME NEW r \in DOMAIN J, NEW q \in DOMAIN J, Above(r, q)
      PROVE  J[r].status = "joining"
  BY <1>2 DEF Tree
<1>. QED BY <1>1, <1>2 DEF Tree

LEMMA TreeForks ==
  ASSUME NEW I, Tree(I), NEW p \in DOMAIN I, I[p].status = "running",
         NEW B \in SUBSET Nat, NEW J, DOMAIN J = DOMAIN I \cup {p \o <<b>> : b \in B},
         J[p].status = "joining", InterpreterOK(J[p]),
         \A q \in DOMAIN I : q # p => J[q] = I[q],
         \A q \in {p \o <<b>> : b \in B} : InterpreterOK(J[q])
  PROVE  Tree(J)
<1>0. /\ p \in Path /\ \A b \in B : p \o <<b>> \in Path
      /\ DOMAIN J \subseteq Path
      /\ \A q \in Path : Len(q) \in Nat
  <2>1. p \in Path /\ \A b \in B : p \o <<b>> \in Path
    BY Branched DEF Tree
  <2>2. \A q \in Path : Len(q) \in Nat
    BY LenProperties DEF Path
  <2>. QED BY <2>1, <2>2 DEF Tree
<1>1. \A q \in DOMAIN J : InterpreterOK(J[q])
  BY DEF Tree
<1>2. \A b \in B : Above(p, p \o <<b>>) /\ p \o <<b>> \notin DOMAIN I
  <2>1. \A b \in B : Above(p, p \o <<b>>)
    BY <1>0, Branched, Prefixes, LenProperties DEF Above, Path
  <2>. QED BY <2>1 DEF Tree
<1>3. ASSUME NEW q \in DOMAIN J, NEW n \in 0 .. Len(q)
      PROVE  SubSeq(q, 1, n) \in DOMAIN J
  <2>1. CASE q \in DOMAIN I
    BY <1>3, <2>1 DEF Tree
  <2>2. ASSUME NEW b \in B, q = p \o <<b>>
        PROVE  SubSeq(q, 1, n) \in DOMAIN J
    <3>1. Len(q) = Len(p) + 1 /\ Len(p) \in Nat
      BY <1>0, <2>2, Branched, LenProperties DEF Path
    <3>2. CASE n = Len(q)
      BY <1>0, <1>3, <2>2, <3>2, Prefixes
    <3>3. CASE n # Len(q)
      <4>1. n \in 0 .. Len(p)
        BY <1>3, <3>1, <3>3
      <4>2. SubSeq(q, 1, n) = SubSeq(p, 1, n)
        BY <1>0, <2>2, <4>1, Branched
      <4>. QED BY <4>1, <4>2 DEF Tree
    <3>. QED BY <3>2, <3>3
  <2>. QED BY <2>1, <2>2
<1>4. ASSUME NEW r \in DOMAIN J, NEW q \in DOMAIN J, Above(r, q)
      PROVE  J[r].status = "joining"
  <2>0. r \in Path /\ q \in Path
    BY <1>0
  <2>1. ASSUME NEW b \in B, q = p \o <<b>>
        PROVE  J[r].status = "joining"
    <3>1. r = p \/ Above(r, p)
      BY <1>0, <1>4, <2>0, <2>1, AboveBranch
    <3>2. CASE r = p
      BY <3>2
    <3>3. CASE Above(r, p)
      <4>1. r \in DOMAIN I
        BY <2>0, <3>3, AboveInTree
      <4>. QED BY <3>3, <4>1 DEF Tree
    <3>. QED BY <3>1, <3>2, <3>3
  <2>2. CASE q \in DOMAIN I
    <3>1. r \in DOMAIN I
      BY <1>4, <2>0, <2>2, AboveInTree
    <3>. QED BY <1>4, <2>2, <3>1 DEF Tree
  <2>. QED BY <2>1, <2>2
<1>. QED BY <1>0, <1>1, <1>3, <1>4 DEF Tree

Below(I, p) == {q \in DOMAIN I : Len(q) = Len(p) + 1 /\ SubSeq(q, 1, Len(p)) = p}

LEMMA TreeJoins ==
  ASSUME NEW I, Tree(I), NEW p \in DOMAIN I,
         \A q \in Below(I, p) : I[q].status # "joining",
         NEW J, DOMAIN J = DOMAIN I \ Below(I, p), InterpreterOK(J[p]),
         \A q \in DOMAIN J : q # p => J[q] = I[q]
  PROVE  Tree(J)
<1>0. p \in Path /\ Len(p) \in Nat /\ DOMAIN J \subseteq Path
      /\ \A q \in Path : Len(q) \in Nat
  BY LenProperties DEF Tree, Path
<1>1. \A q \in DOMAIN J : InterpreterOK(J[q])
  BY DEF Tree
<1>2. <<>> \in DOMAIN J
  <2>1. Len(p) + 1 # 0
    BY <1>0
  <2>2. \A q \in Below(I, p) : Len(q) # Len(<<>>)
    BY <2>1 DEF Below
  <2>. QED BY <2>2 DEF Tree
(* Nothing stays below an interpreter that goes. *)
<1>3. ASSUME NEW q \in DOMAIN J, NEW n \in 0 .. Len(q)
      PROVE  SubSeq(q, 1, n) \in DOMAIN J
  <2> DEFINE r == SubSeq(q, 1, n)
  <2>1. r \in DOMAIN I /\ r \in Path /\ Len(r) = n /\ (n = Len(q) => r = q)
    BY <1>0, Prefixes DEF Tree
  <2>2. CASE n = Len(q)
    BY <2>1, <2>2
  <2>3. CASE n # Len(q)
    <3>1. Above(r, q)
      BY <1>0, <2>1, <2>3 DEF Above
    <3>2. I[r].status = "joining"
      BY <2>1, <3>1 DEF Tree
    <3>. QED BY <2>1, <3>2
  <2>. QED BY <2>2, <2>3
<1>4. ASSUME NEW q \in DOMAIN J, Above(p, q)
      PROVE  FALSE
  <2> DEFINE r == SubSeq(q, 1, Len(p) + 1)
  <2>1. Len(p) + 1 \in 0 .. Len(q) /\ Len(p) \in 0 .. Len(p) + 1
    BY <1>0, <1>4 DEF Above
  <2>2. r \in DOMAIN J /\ Len(r) = Len(p) + 1
    BY <1>0, <1>3, <2>1, Prefixes
  <2>3. SubSeq(r, 1, Len(p)) = p
    BY <1>0, <1>4, <2>1, Prefixes DEF Above
  <2>. QED BY <2>2, <2>3 DEF Below
<1>5. ASSUME NEW r \in DOMAIN J, NEW q \in DOMAIN J, Above(r, q)
      PROVE  J[r].status = "joining"
  <2>1. r # p
    BY <1>4, <1>5
  <2>. QED BY <1>5, <2>1 DEF Tree
<1>. QED BY <1>0, <1>1, <1>2, <1>3, <1>5 DEF Tree

(***************************************************************************)
(* What a request may be in.                                               *)
(***************************************************************************)

(* An error of an interpreter that has gone is raised by one that has not. *)
Marked(s) ==
    (s.raised # {}) <=> (\E p \in DOMAIN s.interpreters : s.interpreters[p].status = "raised")

RunFields == {"todo", "touches", "machine", "execution", "raised", "interpreters"}

Creates(s) == s.todo = <<"create">> /\ "definition" \in DOMAIN s /\ s.definition \in Created

Deletes(s) == s.todo \in {<<"drop executions", "drop machine">>, <<"drop machine">>}

Runs(s) ==
    /\ DOMAIN s = RunFields
    /\ s.todo = <<"run", "record">>
    /\ s.execution \in Executions
    /\ Tree(s.interpreters)
    /\ Marked(s)

Records(s) ==
    /\ DOMAIN s = RunFields \cup {"status"}
    /\ s.todo = <<"record">>
    /\ s.execution \in Executions
    /\ Tree(s.interpreters)
    /\ s.status \in {"SUCCEEDED", "FAILED"}
    /\ (s.status = "FAILED") <=> (s.raised # {})

OnMachine(s) ==
    /\ {"todo", "touches", "machine"} \subseteq DOMAIN s
    /\ s.machine \in Machines /\ s.touches = {s.machine}

LocalOK(s) ==
    \/ s = Idle
    \/ /\ OnMachine(s)
       /\ \/ (Creates(s) \/ Deletes(s)) /\ "interpreters" \notin DOMAIN s
          \/ Runs(s) \/ Records(s)

LocalInv ==
    /\ local = [t \in Workers |-> local[t]]
    /\ \A t \in Workers : LocalOK(local[t])

(* The machine of a request that nobody has disturbed stays as the request *)
(* has found it.                                                           *)
MachineOK(n) ==
    /\ \A t, u \in Workers : n \in local[t].touches /\ n \in local[u].touches => t = u
    /\ \A e \in Executions : executions[e] # NoExecution /\ executions[e].machine = n
          => machines[n] # NoMachine
    /\ \A t \in Workers : n \in local[t].touches =>
          /\ At(t, "run") \/ At(t, "record") => machines[n] # NoMachine
          /\ At(t, "drop machine") =>
                \A e \in Executions : executions[e] = NoExecution \/ executions[e].machine # n

MachineInv == \A n \in Machines \ disturbed : MachineOK(n)

Inv == TypeOK /\ LocalInv /\ MachineInv

LEMMA Pairs ==
  /\ \A a : Head(<<a>>) = a /\ Tail(<<a>>) = <<>>
  /\ \A a, b : Head(<<a, b>>) = a /\ Tail(<<a, b>>) = <<b>>
  /\ \A a, b : <<a>> # <<>> /\ <<a, b>> # <<>>
OBVIOUS

LEMMA AtStep ==
  ASSUME LocalInv, NEW t \in Workers
  PROVE  /\ At(t, "run") => OnMachine(local[t]) /\ Runs(local[t])
         /\ At(t, "record") => OnMachine(local[t]) /\ Records(local[t])
         /\ At(t, "create") => OnMachine(local[t]) /\ Creates(local[t])
         /\ At(t, "drop executions") =>
               /\ OnMachine(local[t]) /\ "interpreters" \notin DOMAIN local[t]
               /\ local[t].todo = <<"drop executions", "drop machine">>
         /\ At(t, "drop machine") =>
               /\ OnMachine(local[t]) /\ "interpreters" \notin DOMAIN local[t]
               /\ local[t].todo = <<"drop machine">>
<1> DEFINE s == local[t]
<1>1. LocalOK(s)
  BY DEF LocalInv
<1>2. CASE s = Idle
  BY <1>2 DEF Idle, At
<1>3. CASE OnMachine(s) /\ Creates(s)
  BY <1>3 DEF At, Creates
<1>4. CASE OnMachine(s) /\ Deletes(s) /\ "interpreters" \notin DOMAIN s
  <2>1. CASE s.todo = <<"drop executions", "drop machine">>
    <3>1. Head(s.todo) = "drop executions"
      BY <2>1, Pairs, Zenon
    <3>. QED BY <1>4, <2>1, <3>1 DEF At
  <2>2. CASE s.todo = <<"drop machine">>
    <3>1. Head(s.todo) = "drop machine"
      BY <2>2, Pairs, Zenon
    <3>. QED BY <1>4, <2>2, <3>1 DEF At
  <2>. QED BY <1>4, <2>1, <2>2 DEF Deletes
<1>5. CASE OnMachine(s) /\ Runs(s)
  BY <1>5 DEF At, Runs
<1>6. CASE OnMachine(s) /\ Records(s)
  BY <1>6 DEF At, Records
<1>. QED BY <1>1, <1>2, <1>3, <1>4, <1>5, <1>6 DEF LocalOK

LEMMA ContinueOK ==
  ASSUME LocalInv, NEW t \in Workers, NEW s, s.todo = <<>> \/ LocalOK(s), Continue(t, s)
  PROVE  LocalInv'
<1>1. LocalOK(IF s.todo = <<>> THEN Idle ELSE s)
  BY DEF LocalOK
<1> DEFINE r == IF s.todo = <<>> THEN Idle ELSE s
<1>2. local' = [local EXCEPT ![t] = r] /\ LocalOK(r)
  BY <1>1 DEF Continue
<1> HIDE DEF r
<1>3. DOMAIN local = Workers
  BY DEF LocalInv
<1>4. /\ local' = [u \in Workers |-> local'[u]] /\ local'[t] = r
      /\ \A u \in Workers : u # t => local'[u] = local[u]
  BY <1>2, <1>3
<1>5. \A u \in Workers : LocalOK(local'[u])
  BY <1>2, <1>4 DEF LocalInv
<1>. QED BY <1>4, <1>5 DEF LocalInv

LEMMA BeginOK ==
  ASSUME LocalInv, NEW t \in Workers, NEW s, LocalOK(s), Begin(t, s)
  PROVE  LocalInv'
<1>3. DOMAIN local = Workers
  BY DEF LocalInv
<1>4. /\ local' = [u \in Workers |-> local'[u]] /\ local'[t] = s
      /\ \A u \in Workers : u # t => local'[u] = local[u]
  BY <1>3 DEF Begin
<1>5. \A u \in Workers : LocalOK(local'[u])
  BY <1>4 DEF LocalInv
<1>. QED BY <1>4, <1>5 DEF LocalInv

LEMMA BreakOffOK ==
  ASSUME LocalInv, NEW S, BreakOff(S)
  PROVE  LocalInv'
<1>1. /\ local' = [u \in Workers |-> local'[u]]
      /\ \A u \in Workers : local'[u] = Idle \/ local'[u] = local[u]
  BY DEF BreakOff, LocalInv
<1>2. \A u \in Workers : LocalOK(local'[u])
  BY <1>1 DEF LocalInv, LocalOK
<1>. QED BY <1>1, <1>2 DEF LocalInv

(* An execution goes on: what has to be shown of its next state.           *)
LEMMA RunsOn ==
  ASSUME LocalInv, NEW t \in Workers, At(t, "run"),
         NEW s, Continue(t, s),
         DOMAIN s = DOMAIN local[t],
         \A x \in RunFields \ {"interpreters", "raised"} : s[x] = local[t][x],
         Tree(s.interpreters), Marked(s)
  PROVE  LocalInv'
<1> DEFINE r == local[t]
<1>1. OnMachine(r) /\ Runs(r)
  BY AtStep
<1>2. DOMAIN r = RunFields
  BY <1>1 DEF Runs
<1>3. /\ DOMAIN s = RunFields /\ s.todo = r.todo /\ s.touches = r.touches /\ s.machine = r.machine /\ s.execution = r.execution
  BY <1>2 DEF RunFields
<1>4. OnMachine(s)
  BY <1>1, <1>3 DEF OnMachine, RunFields
<1>5. Runs(s)
  BY <1>1, <1>3 DEF Runs
<1>6. LocalOK(s)
  BY <1>4, <1>5 DEF LocalOK
<1>. QED BY <1>6, ContinueOK

LEMMA BecomesOK ==
  ASSUME LocalInv, NEW t \in Workers, NEW p, Running(t, p), NEW i, InterpreterOK(i),
         i.status # "raised", Becomes(t, p, i)
  PROVE  LocalInv'
<1> DEFINE r == local[t]
           I == r.interpreters
           s == [r EXCEPT !.interpreters[p] = i]
           J == s.interpreters
<1>1. At(t, "run") /\ p \in DOMAIN I /\ I[p].status = "running"
  BY DEF Running
<1>2. DOMAIN r = RunFields /\ Tree(I) /\ Marked(r)
  BY <1>1, AtStep DEF Runs
<1>3. /\ DOMAIN s = DOMAIN r
      /\ \A x \in RunFields \ {"interpreters"} : s[x] = r[x]
      /\ J = [I EXCEPT ![p] = i]
  BY <1>2 DEF RunFields
<1>4. /\ DOMAIN J = DOMAIN I /\ J[p] = i
      /\ \A q \in DOMAIN I : q # p => J[q] = I[q]
  BY <1>1, <1>3
<1>5. s.raised = r.raised
  BY <1>3 DEF RunFields
<1>6. Continue(t, s)
  BY DEF Becomes
<1> HIDE DEF s
<1>7. Tree(J)
  BY <1>1, <1>2, <1>4, TreeGoesOn
<1>8. Marked(s)
  <2>1. (\E q \in DOMAIN J : J[q].status = "raised") <=> (\E q \in DOMAIN I : I[q].status = "raised")
    BY <1>1, <1>4
  <2>. QED BY <1>2, <1>5, <2>1 DEF Marked
<1>. QED BY <1>1, <1>3, <1>6, <1>7, <1>8, RunsOn

LEMMA RaiseOK ==
  ASSUME LocalInv, NEW t \in Workers, NEW p, Running(t, p), Raise(t, p)
  PROVE  LocalInv'
<1> DEFINE r == local[t]
           I == r.interpreters
           s == [r EXCEPT !.interpreters[p].status = "raised", !.raised = @ \cup {p}]
           J == s.interpreters
<1>1. At(t, "run") /\ p \in DOMAIN I /\ I[p].status = "running"
  BY DEF Running
<1>2. DOMAIN r = RunFields /\ Tree(I) /\ Marked(r)
  BY <1>1, AtStep DEF Runs
<1>3. /\ DOMAIN s = DOMAIN r
      /\ \A x \in RunFields \ {"interpreters", "raised"} : s[x] = r[x]
      /\ J = [I EXCEPT ![p] = [I[p] EXCEPT !.status = "raised"]]
      /\ s.raised = r.raised \cup {p}
  BY <1>2 DEF RunFields
<1>4. /\ DOMAIN J = DOMAIN I /\ J[p] = [I[p] EXCEPT !.status = "raised"]
      /\ \A q \in DOMAIN I : q # p => J[q] = I[q]
  BY <1>1, <1>3
<1>5. InterpreterOK(J[p]) /\ J[p].status = "raised"
  BY <1>1, <1>2, <1>4 DEF InterpreterOK, Tree
<1>6. Continue(t, s)
  BY DEF Raise
<1> HIDE DEF s
<1>7. Tree(J)
  BY <1>1, <1>2, <1>4, <1>5, TreeGoesOn
<1>8. Marked(s)
  BY <1>1, <1>3, <1>4, <1>5 DEF Marked
<1>. QED BY <1>1, <1>3, <1>6, <1>7, <1>8, RunsOn

LEMMA GoOnOK ==
  ASSUME LocalInv, NEW t \in Workers, NEW p, Running(t, p), GoOn(t, p)
  PROVE  LocalInv'
<1> DEFINE i == local[t].interpreters[p]
<1>1. InterpreterOK(i)
  BY AtStep DEF Running, Runs, Tree
<1>2. PICK next \in States(i)[i.at].next \ {"none"} :
          Becomes(t, p, [i EXCEPT !.visited = @ + 1,
                                  !.at = IF next = "end" THEN @ ELSE next,
                                  !.status = IF next = "end" THEN "returned" ELSE "running"])
  BY DEF GoOn
<1> DEFINE j == [i EXCEPT !.visited = @ + 1,
                          !.at = IF next = "end" THEN @ ELSE next,
                          !.status = IF next = "end" THEN "returned" ELSE "running"]
<1>3. DOMAIN j = DOMAIN i /\ j.definition = i.definition /\ j.status \in {"returned", "running"}
  BY <1>1 DEF InterpreterOK
<1>4. InterpreterOK(j) /\ j.status # "raised"
  BY <1>1, <1>3 DEF InterpreterOK
<1>5. Becomes(t, p, j)
  BY <1>2
<1> HIDE DEF j
<1>. QED BY <1>4, <1>5, BecomesOK

LEMMA SucceedOK ==
  ASSUME LocalInv, NEW t \in Workers, NEW p, Succeed(t, p)
  PROVE  LocalInv'
<1> DEFINE i == local[t].interpreters[p]
           j == [i EXCEPT !.status = "returned"]
<1>1. Running(t, p) /\ Becomes(t, p, j)
  BY DEF Succeed, Visits
<1>2. InterpreterOK(i)
  BY <1>1, AtStep DEF Running, Runs, Tree
<1>3. InterpreterOK(j) /\ j.status # "raised"
  BY <1>2 DEF InterpreterOK
<1> HIDE DEF j
<1>. QED BY <1>1, <1>3, BecomesOK

LEMMA Interpreters ==
  ASSUME NEW d \in Definitions
  PROVE  InterpreterOK(Interpreter(d)) /\ Interpreter(d).status = "running"
BY DEF Interpreter, InterpreterOK

LEMMA ForkOK ==
  ASSUME LocalInv, NEW t \in Workers, NEW p, Fork(t, p)
  PROVE  LocalInv'
<1> DEFINE r == local[t]
           I == r.interpreters
           branches == Branches(t, p)
           B == DOMAIN branches
           new == [q \in {p \o <<b>> : b \in B} |-> Interpreter(branches[q[Len(q)]])]
           old == [I EXCEPT ![p].status = "joining"]
           s == [r EXCEPT !.interpreters = Also(new, old)]
           J == s.interpreters
<1>1. At(t, "run") /\ p \in DOMAIN I /\ I[p].status = "running" /\ I[p].at \in DOMAIN States(I[p])
  BY DEF Fork, Visits, Running
<1>2. DOMAIN r = RunFields /\ Tree(I) /\ Marked(r)
  BY <1>1, AtStep DEF Runs
<1>3. InterpreterOK(I[p]) /\ p \in Path
  BY <1>1, <1>2 DEF Tree
<1>4. branches \in Seq(Definitions)
  BY <1>1, <1>3, StepFunctionsAssumption DEF Branches, States, InterpreterOK
<1>5. B \in SUBSET Nat /\ \A b \in B : branches[b] \in Definitions
  <2>1. B = 1 .. Len(branches) /\ Len(branches) \in Nat
    BY <1>4, LenProperties
  <2>2. \A b \in 1 .. Len(branches) : branches[b] \in Definitions
    BY <1>4, ElementOfSeq
  <2>. QED BY <2>1, <2>2
<1>6. Continue(t, s)
  <2>1. Continue(t, [r EXCEPT !.interpreters = Also(new, [@ EXCEPT ![p].status = "joining"])])
    BY DEF Fork
  <2>. QED BY <2>1
<1> HIDE DEF B, branches
<1>7. /\ DOMAIN s = DOMAIN r
      /\ \A x \in RunFields \ {"interpreters"} : s[x] = r[x]
      /\ J = Also(new, old)
  BY <1>2 DEF RunFields
<1>8. s.raised = r.raised
  BY <1>7 DEF RunFields
<1> HIDE DEF s
<1>9. \A b \in B : p \o <<b>> \notin DOMAIN I
  <2>1. \A b \in B : Above(p, p \o <<b>>)
    BY <1>3, <1>5, Branched, Prefixes, LenProperties DEF Above, Path
  <2>. QED BY <1>1, <1>2, <2>1 DEF Tree
<1>10. /\ DOMAIN old = DOMAIN I /\ old[p] = [I[p] EXCEPT !.status = "joining"]
       /\ \A q \in DOMAIN I : q # p => old[q] = I[q]
  BY <1>1
<1>11. \A b \in B : InterpreterOK(new[p \o <<b>>]) /\ new[p \o <<b>>].status = "running"
  <2>1. ASSUME NEW b \in B
        PROVE  new[p \o <<b>>] = Interpreter(branches[b])
    <3>1. (p \o <<b>>)[Len(p \o <<b>>)] = b
      BY <1>3, <1>5, Branched
    <3>. QED BY <3>1
  <2>. QED BY ZenonT(60), <1>5, <2>1, Interpreters
<1>12. DOMAIN new = {p \o <<b>> : b \in B}
  OBVIOUS
<1> HIDE DEF new, old
<1>13. /\ DOMAIN J = DOMAIN I \cup {p \o <<b>> : b \in B}
       /\ J[p] = old[p]
       /\ \A q \in DOMAIN I : q # p => J[q] = I[q]
       /\ \A q \in {p \o <<b>> : b \in B} : J[q] = new[q]
  <2>1. DOMAIN J = DOMAIN new \cup DOMAIN old
    BY <1>7 DEF Also
  <2>2. \A q \in DOMAIN J : J[q] = IF q \in DOMAIN new THEN new[q] ELSE old[q]
    BY <1>7, <2>1 DEF Also
  <2>3. \A q \in DOMAIN I : q \notin DOMAIN new
    BY <1>9, <1>12
  <2>. QED BY <1>1, <1>10, <1>12, <2>1, <2>2, <2>3
<1>14. InterpreterOK(J[p]) /\ J[p].status = "joining"
  BY <1>3, <1>10, <1>13 DEF InterpreterOK
<1>15. \A q \in {p \o <<b>> : b \in B} : InterpreterOK(J[q]) /\ J[q].status = "running"
  BY <1>11, <1>13
<1>16. Tree(J)
  <2>1. /\ Tree(I) /\ p \in DOMAIN I /\ I[p].status = "running" /\ B \in SUBSET Nat
        /\ DOMAIN J = DOMAIN I \cup {p \o <<b>> : b \in B}
        /\ J[p].status = "joining" /\ InterpreterOK(J[p])
        /\ \A q \in DOMAIN I : q # p => J[q] = I[q]
    BY <1>1, <1>2, <1>5, <1>13, <1>14
  <2>2. \A q \in {p \o <<b>> : b \in B} : InterpreterOK(J[q])
    BY <1>15
  <2> HIDE DEF I, J
  <2>. QED BY <2>1, <2>2, TreeForks
<1>17. Marked(s)
  <2>1. (\E q \in DOMAIN J : J[q].status = "raised") <=> (\E q \in DOMAIN I : I[q].status = "raised")
    BY <1>1, <1>13, <1>14, <1>15
  <2>. QED BY <1>2, <1>8, <2>1 DEF Marked
<1>. QED BY <1>1, <1>6, <1>7, <1>16, <1>17, RunsOn

LEMMA JoinOK ==
  ASSUME LocalInv, NEW t \in Workers, NEW p, Join(t, p)
  PROVE  LocalInv'
<1> DEFINE r == local[t]
           I == r.interpreters
           i == I[p]
           over == {q \in Children(t, p) : Ended(t, q)}
           errors == {q \in Children(t, p) : Failed(t, q)}
           rest == [q \in DOMAIN I \ over |-> I[q]]
<1>1. At(t, "run") /\ p \in DOMAIN I /\ i.status = "joining" /\ over = Children(t, p)
  BY DEF Join, Joining
<1>2. DOMAIN r = RunFields /\ Tree(I) /\ Marked(r)
  BY <1>1, AtStep DEF Runs
<1>3. Children(t, p) = Below(I, p)
  BY DEF Children, Below
<1>4. \A q \in Below(I, p) : I[q].status \in {"returned", "raised"}
  BY <1>1, <1>3 DEF Ended
<1>5. InterpreterOK(i) /\ p \in Path
  BY <1>1, <1>2 DEF Tree
<1>6. /\ DOMAIN rest = DOMAIN I \ Below(I, p) /\ p \in DOMAIN rest
      /\ \A q \in DOMAIN rest : rest[q] = I[q]
  <2>1. Len(p) # Len(p) + 1
    BY <1>5, LenProperties DEF Path
  <2>. QED BY <1>1, <1>3, <2>1 DEF Below
(* The interpreter has raised if a branch did, and else goes on.           *)
<1>7. ASSUME NEW s, Continue(t, s), DOMAIN s = DOMAIN r,
             \A x \in RunFields \ {"interpreters", "raised"} : s[x] = r[x],
             NEW j, InterpreterOK(j), NEW J, J = s.interpreters,
             DOMAIN J = DOMAIN rest, J[p] = j,
             \A q \in DOMAIN rest : q # p => J[q] = rest[q],
             \/ errors # {} /\ j.status = "raised" /\ s.raised = r.raised \cup {p}
             \/ errors = {} /\ j.status # "raised" /\ s.raised = r.raised
      PROVE  LocalInv'
  <2>1. Tree(J)
    <3>1. \A q \in Below(I, p) : I[q].status # "joining"
      BY <1>4
    <3>2. /\ Tree(I) /\ p \in DOMAIN I
          /\ DOMAIN J = DOMAIN I \ Below(I, p) /\ InterpreterOK(J[p])
          /\ \A q \in DOMAIN J : q # p => J[q] = I[q]
      BY <1>1, <1>2, <1>6, <1>7
    <3> HIDE DEF I, rest
    <3>. QED BY <3>1, <3>2, TreeJoins
  <2>2. CASE errors # {}
    <3>1. J[p].status = "raised" /\ p \in DOMAIN J /\ s.raised # {}
      BY <1>6, <1>7, <2>2
    <3>2. Marked(s)
      BY <1>7, <3>1 DEF Marked
    <3>. QED BY <1>1, <1>7, <2>1, <3>2, RunsOn
  <2>3. CASE errors = {}
    <3>1. \A q \in Below(I, p) : I[q].status # "raised"
      BY <1>3, <2>3 DEF Failed
    <3>2. (\E q \in DOMAIN J : J[q].status = "raised") <=> (\E q \in DOMAIN I : I[q].status = "raised")
      BY ZenonT(60), <1>1, <1>6, <1>7, <2>3, <3>1
    <3>3. Marked(s)
      BY <1>2, <1>7, <2>3, <3>2 DEF Marked
    <3>. QED BY <1>1, <1>7, <2>1, <3>3, RunsOn
  <2>. QED BY <2>2, <2>3
<1>8. CASE errors # {}
  <2> DEFINE j == [i EXCEPT !.status = "raised"]
             J == [rest EXCEPT ![p].status = "raised"]
             s == [r EXCEPT !.interpreters = J, !.raised = @ \cup {p}]
  <2>1. Continue(t, s)
    BY <1>8 DEF Join, Joining
  <2>2. InterpreterOK(j) /\ j.status = "raised"
    BY <1>5 DEF InterpreterOK
  <2> HIDE DEF rest
  <2>3. DOMAIN J = DOMAIN rest /\ J[p] = j /\ \A q \in DOMAIN rest : q # p => J[q] = rest[q]
    BY <1>6
  <2> HIDE DEF J
  <2>4. /\ DOMAIN s = DOMAIN r
        /\ \A x \in RunFields \ {"interpreters", "raised"} : s[x] = r[x]
        /\ s.interpreters = J /\ s.raised = r.raised \cup {p}
    BY <1>2 DEF RunFields
  <2> HIDE DEF s, j, errors
  <2>. QED BY <1>7, <1>8, <2>1, <2>2, <2>3, <2>4
<1>9. CASE errors = {}
  <2>1. PICK next \in States(i)[i.at].next :
           Continue(t, [r EXCEPT !.interpreters =
                       [rest EXCEPT ![p].visited = i.visited + 1,
                                    ![p].at = IF next = "end" THEN @ ELSE next,
                                    ![p].status = IF next = "end" THEN "returned" ELSE "running"]])
    BY <1>9 DEF Join, Joining
  <2> DEFINE at == IF next = "end" THEN rest[p].at ELSE next
             status == IF next = "end" THEN "returned" ELSE "running"
             J == [rest EXCEPT ![p].visited = i.visited + 1,
                               ![p].at = IF next = "end" THEN @ ELSE next,
                               ![p].status = IF next = "end" THEN "returned" ELSE "running"]
             j == J[p]
             s == [r EXCEPT !.interpreters = J]
  <2>2. Continue(t, s)
    BY <2>1
  <2> HIDE DEF rest
  <2>3. DOMAIN J = DOMAIN rest /\ \A q \in DOMAIN rest : q # p => J[q] = rest[q]
    BY <1>6
  <2>4. DOMAIN j = DOMAIN rest[p] /\ j.definition = rest[p].definition /\ j.status = status
    BY <1>5, <1>6 DEF InterpreterOK
  <2>5. InterpreterOK(j) /\ j.status # "raised"
    BY <1>5, <1>6, <2>4 DEF InterpreterOK
  <2> HIDE DEF J, status
  <2>6. /\ DOMAIN s = DOMAIN r
        /\ \A x \in RunFields \ {"interpreters"} : s[x] = r[x]
        /\ s.interpreters = J
    BY <1>2 DEF RunFields
  <2>7. s.raised = r.raised
    BY <2>6 DEF RunFields
  <2>8. \A x \in RunFields \ {"interpreters", "raised"} : s[x] = r[x]
    BY <2>6
  <2> HIDE DEF s, errors
  <2>. QED BY <1>7, <1>9, <2>2, <2>3, <2>5, <2>6, <2>7, <2>8
<1>. QED BY <1>8, <1>9

(* When the interpreter of the request ends no other is left.              *)
LEMMA RootAlone ==
  ASSUME NEW I, Tree(I), I[<<>>].status # "joining"
  PROVE  DOMAIN I = {<<>>}
<1>1. ASSUME NEW q \in DOMAIN I, q # <<>>
      PROVE  FALSE
  <2>1. q \in Path /\ <<>> \in DOMAIN I /\ Len(q) \in Nat /\ Len(<<>>) = 0 /\ <<>> \in Path
    BY LenProperties DEF Tree, Path
  <2>2. Len(q) # 0
    BY <1>1, <2>1, EmptySeq DEF Path
  <2>3. SubSeq(q, 1, 0) \in Path /\ Len(SubSeq(q, 1, 0)) = 0
    BY <2>1, Prefixes
  <2>4. SubSeq(q, 1, 0) = <<>>
    BY <2>3, EmptySeq DEF Path
  <2>5. 0 < Len(q)
    BY <2>1, <2>2
  <2>6. Above(<<>>, q)
    BY <2>1, <2>4, <2>5 DEF Above
  <2>. QED BY <2>1, <2>6 DEF Tree
<1>. QED BY <1>1 DEF Tree

LEMMA FinishOK ==
  ASSUME LocalInv, NEW t \in Workers, Finish(t)
  PROVE  LocalInv'
<1> DEFINE r == local[t]
           I == r.interpreters
           status == IF I[<<>>].status = "returned" THEN "SUCCEEDED" ELSE "FAILED"
           next == [r EXCEPT !.todo = Tail(@)]
           s == Also(next, [status |-> status])
<1>1. At(t, "run") /\ I[<<>>].status \in {"returned", "raised"} /\ Continue(t, s)
  BY DEF Finish
<1>2. OnMachine(r) /\ Runs(r)
  BY <1>1, AtStep
<1>3. DOMAIN r = RunFields /\ r.todo = <<"run", "record">> /\ Tree(I) /\ Marked(r)
  BY <1>2 DEF Runs
<1>4. DOMAIN next = DOMAIN r /\ next.todo = <<"record">> /\ \A x \in DOMAIN r : x # "todo" => next[x] = r[x]
  BY <1>3, Pairs DEF RunFields
<1> HIDE DEF next
<1>5. DOMAIN s = RunFields \cup {"status"}
  BY <1>3, <1>4 DEF Also
<1>6. s.status = status /\ \A x \in RunFields : s[x] = next[x]
  BY <1>3, <1>4, <1>5 DEF Also, RunFields
<1> HIDE DEF s
<1>7. s.todo = <<"record">> /\ \A x \in RunFields \ {"todo"} : s[x] = r[x]
  BY <1>3, <1>4, <1>6 DEF RunFields
<1>8. /\ s.touches = r.touches /\ s.machine = r.machine /\ s.execution = r.execution
      /\ s.interpreters = I /\ s.raised = r.raised
  BY <1>7 DEF RunFields
<1>9. (status = "FAILED") <=> (r.raised # {})
  <2>1. DOMAIN I = {<<>>}
    BY <1>1, <1>3, RootAlone
  <2>2. (r.raised # {}) <=> (I[<<>>].status = "raised")
    BY <1>3, <2>1 DEF Marked
  <2>. QED BY <1>1, <2>2
<1>10. Records(s)
  BY <1>2, <1>3, <1>5, <1>6, <1>7, <1>8, <1>9 DEF Records, Runs
<1>11. OnMachine(s)
  BY <1>2, <1>5, <1>8 DEF OnMachine, RunFields
<1>12. LocalOK(s)
  BY <1>10, <1>11 DEF LocalOK
<1>. QED BY <1>1, <1>12, ContinueOK

(* The last statement of a request, and one before it.                     *)
LEMMA LastStatement ==
  ASSUME LocalInv, NEW t \in Workers, NEW step, Does(t, step),
         step \in {"create", "record"} \/ step = "drop machine"
  PROVE  LocalInv'
<1> DEFINE r == local[t]
           s == [r EXCEPT !.todo = Tail(@)]
<1>1. At(t, step) /\ Continue(t, s)
  BY DEF Does, Advance
<1>2. r.todo = <<step>> /\ "todo" \in DOMAIN r
  <2>1. CASE step = "create"
    BY <1>1, <2>1, AtStep DEF Creates, OnMachine
  <2>2. CASE step = "record"
    BY <1>1, <2>2, AtStep DEF Records, OnMachine
  <2>3. CASE step = "drop machine"
    BY <1>1, <2>3, AtStep DEF OnMachine
  <2>. QED BY <2>1, <2>2, <2>3
<1>3. s.todo = <<>>
  BY <1>2, Pairs
<1> HIDE DEF s
<1>. QED BY <1>1, <1>3, ContinueOK

LEMMA DropExecutionsOK ==
  ASSUME LocalInv, NEW t \in Workers, Does(t, "drop executions")
  PROVE  LocalInv' /\ local' = [local EXCEPT ![t] = [@ EXCEPT !.todo = <<"drop machine">>]]
<1> DEFINE r == local[t]
           s == [r EXCEPT !.todo = Tail(@)]
<1>1. At(t, "drop executions") /\ Continue(t, s)
  BY DEF Does, Advance
<1>2. /\ OnMachine(r) /\ "interpreters" \notin DOMAIN r
      /\ r.todo = <<"drop executions", "drop machine">>
  BY <1>1, AtStep
<1>3. /\ DOMAIN s = DOMAIN r /\ \A x \in DOMAIN r : x # "todo" => s[x] = r[x]
      /\ s.todo = Tail(r.todo)
  BY <1>2 DEF OnMachine
<1>4. s.todo = <<"drop machine">>
  BY <1>2, <1>3, Pairs, Zenon
<1>5. s.touches = r.touches /\ s.machine = r.machine
  BY <1>2, <1>3 DEF OnMachine
<1>6. s = [r EXCEPT !.todo = <<"drop machine">>] /\ s.todo # <<>>
  <2>1. Tail(r.todo) = <<"drop machine">> /\ <<"drop machine">> # <<>>
    BY <1>3, <1>4
  <2>. QED BY <1>4, <2>1
<1> HIDE DEF s
<1>7. OnMachine(s) /\ Deletes(s)
  BY <1>2, <1>3, <1>4, <1>5 DEF OnMachine, Deletes
<1>8. LocalOK(s)
  BY <1>2, <1>3, <1>7 DEF LocalOK
<1>9. LocalInv'
  BY <1>1, <1>8, ContinueOK
<1>10. local' = [local EXCEPT ![t] = s]
  BY <1>1, <1>6 DEF Continue
<1>. QED BY <1>6, <1>9, <1>10

Asks(s, n, todo, r) ==
    /\ DOMAIN s = {"todo", "touches", "machine"} \cup DOMAIN r
    /\ s.todo = todo /\ s.touches = {n} /\ s.machine = n
    /\ \A x \in DOMAIN r : s[x] = r[x]
    /\ OnMachine(s)

LEMMA OnOK ==
  ASSUME NEW n \in Machines, NEW todo, NEW r, {"todo", "touches", "machine"} \cap DOMAIN r = {},
         NEW s, s = On(n, todo, r)
  PROVE  Asks(s, n, todo, r)
<1> DEFINE b == [todo |-> todo, touches |-> {n}, machine |-> n]
<1>1. DOMAIN b = {"todo", "touches", "machine"} /\ b.todo = todo /\ b.touches = {n} /\ b.machine = n
  OBVIOUS
<1>2. s = [x \in DOMAIN b \cup DOMAIN r |-> IF x \in DOMAIN b THEN b[x] ELSE r[x]]
  BY DEF On, Also
<1> HIDE DEF b
<1>3. DOMAIN s = {"todo", "touches", "machine"} \cup DOMAIN r
  BY <1>1, <1>2
<1>4. s.todo = todo /\ s.touches = {n} /\ s.machine = n /\ \A x \in DOMAIN r : s[x] = r[x]
  BY <1>1, <1>2
<1>5. OnMachine(s)
  BY <1>3, <1>4 DEF OnMachine
<1>. QED BY <1>3, <1>4, <1>5 DEF Asks

LEMMA CreateBegins ==
  ASSUME LocalInv, NEW t \in Workers, NEW n \in Machines, NEW d \in Created, CreateCheck(t, n, d)
  PROVE  LocalInv'
<1> DEFINE r == [definition |-> d]
           s == On(n, <<"create">>, r)
<1>1. DOMAIN r = {"definition"} /\ r.definition = d
  OBVIOUS
<1>2. /\ DOMAIN s = {"todo", "touches", "machine"} \cup DOMAIN r
      /\ s.todo = <<"create">> /\ \A x \in DOMAIN r : s[x] = r[x]
      /\ OnMachine(s)
  <2>1. {"todo", "touches", "machine"} \cap DOMAIN r = {}
    BY <1>1
  <2> HIDE DEF r
  <2>2. s = On(n, <<"create">>, r)
    OBVIOUS
  <2> HIDE DEF s
  <2>3. Asks(s, n, <<"create">>, r)
    BY <2>1, <2>2, OnOK
  <2>. QED BY <2>3 DEF Asks
<1>3. Begin(t, s)
  BY DEF CreateCheck, Ask
<1> HIDE DEF s
<1>4. Creates(s)
  BY <1>1, <1>2 DEF Creates
<1>5. "interpreters" \notin DOMAIN s
  BY <1>1, <1>2
<1>6. LocalOK(s)
  BY <1>2, <1>4, <1>5 DEF LocalOK
<1>. QED BY <1>3, <1>6, BeginOK

LEMMA DeleteBegins ==
  ASSUME LocalInv, NEW t \in Workers, NEW n \in Machines, DeleteRequire(t, n)
  PROVE  LocalInv'
<1> DEFINE todo == <<"drop executions", "drop machine">>
           s == On(n, todo, <<>>)
<1>3. Begin(t, s)
  BY DEF DeleteRequire, Ask
<1> HIDE DEF todo
<1>1. DOMAIN <<>> = {}
  OBVIOUS
<1>2. /\ DOMAIN s = {"todo", "touches", "machine"} \cup DOMAIN <<>>
      /\ s.todo = todo
      /\ OnMachine(s)
  <2>1. {"todo", "touches", "machine"} \cap DOMAIN <<>> = {}
    BY <1>1
  <2>2. s = On(n, todo, <<>>)
    OBVIOUS
  <2> HIDE DEF s
  <2>3. Asks(s, n, todo, <<>>)
    BY <2>1, <2>2, OnOK
  <2>. QED BY <2>3 DEF Asks
<1> HIDE DEF s
<1>4. Deletes(s)
  BY <1>2 DEF Deletes, todo
<1>5. "interpreters" \notin DOMAIN s
  BY <1>1, <1>2
<1>6. LocalOK(s)
  BY <1>2, <1>4, <1>5 DEF LocalOK
<1>. QED BY <1>3, <1>6, BeginOK

LEMMA StartBegins ==
  ASSUME TypeOK, LocalInv, NEW t \in Workers, NEW n \in Machines, NEW e \in Executions, Start(t, n, e)
  PROVE  LocalInv'
<1> DEFINE I == [p \in {<<>>} |-> Interpreter(machines[n])]
           r == [execution |-> e, raised |-> {}, interpreters |-> I]
           s == On(n, <<"run", "record">>, r)
<1>1. machines[n] \in Definitions
  BY StepFunctionsAssumption DEF Start, TypeOK
<1>2. InterpreterOK(I[<<>>]) /\ I[<<>>].status = "running" /\ DOMAIN I = {<<>>}
  BY <1>1, Interpreters
<1>3. Tree(I)
  <2>1. <<>> \in Path /\ Len(<<>>) = 0
    BY EmptySeq DEF Path
  <2>2. \A m \in 0 .. Len(<<>>) : SubSeq(<<>>, 1, m) = <<>>
    <3>1. \A m \in 0 .. 0 : m = 0
      OBVIOUS
    <3>2. SubSeq(<<>>, 1, 0) = <<>>
      BY <2>1, Prefixes
    <3>. QED BY <2>1, <3>1, <3>2
  <2>3. ~ Above(<<>>, <<>>)
    BY <2>1 DEF Above
  <2> HIDE DEF I
  <2>. QED BY <1>2, <2>1, <2>2, <2>3 DEF Tree
<1>4. Begin(t, s)
  BY DEF Start, Ask
<1> HIDE DEF I
<1>5. DOMAIN r = {"execution", "raised", "interpreters"} /\ r.execution = e /\ r.raised = {} /\ r.interpreters = I
  OBVIOUS
<1> HIDE DEF r
<1>6. /\ DOMAIN s = {"todo", "touches", "machine"} \cup DOMAIN r
      /\ s.todo = <<"run", "record">> /\ \A x \in DOMAIN r : s[x] = r[x]
      /\ OnMachine(s)
  <2>1. {"todo", "touches", "machine"} \cap DOMAIN r = {}
    BY <1>5
  <2>2. s = On(n, <<"run", "record">>, r)
    OBVIOUS
  <2> HIDE DEF s
  <2>3. Asks(s, n, <<"run", "record">>, r)
    BY <2>1, <2>2, OnOK
  <2>. QED BY <2>3 DEF Asks
<1> HIDE DEF s
<1>7. s.execution = e /\ s.raised = {} /\ s.interpreters = I
  BY <1>5, <1>6
<1>8. Marked(s)
  BY <1>2, <1>7 DEF Marked
<1>9. DOMAIN s = RunFields
  BY <1>5, <1>6 DEF RunFields
<1>10. Runs(s)
  BY <1>3, <1>6, <1>7, <1>8, <1>9 DEF Runs
<1>11. LocalOK(s)
  BY <1>6, <1>10 DEF LocalOK
<1>. QED BY <1>4, <1>11, BeginOK

LEMMA LocalStep ==
  ASSUME TypeOK, LocalInv, [Next]_vars
  PROVE  LocalInv'
<1>1. ASSUME NEW t \in Workers, Accept(t)
      PROVE  LocalInv'
  BY <1>1, CreateBegins, DeleteBegins, StartBegins DEF Accept
<1>2. ASSUME NEW t \in Workers, Administer(t)
      PROVE  LocalInv'
  <2>1. CASE Create(t)
    BY <2>1, LastStatement DEF Create
  <2>2. CASE DropExecutions(t)
    BY <2>2, DropExecutionsOK DEF DropExecutions
  <2>3. CASE DropMachine(t)
    BY <2>3, LastStatement DEF DropMachine
  <2>. QED BY <1>2, <2>1, <2>2, <2>3 DEF Administer
<1>3. ASSUME NEW t \in Workers, Execute(t)
      PROVE  LocalInv'
  <2>1. ASSUME NEW p, \/ Stray(t, p) \/ Task(t, p) \/ PassOrWait(t, p) \/ Choice(t, p)
                      \/ Succeed(t, p) \/ Fail(t, p) \/ Fork(t, p) \/ Join(t, p)
        PROVE  LocalInv'
    <3>1. CASE Stray(t, p)
      BY <3>1, RaiseOK DEF Stray
    <3>2. CASE Task(t, p)
      BY <3>2, GoOnOK, RaiseOK DEF Task, Visits
    <3>3. CASE PassOrWait(t, p)
      BY <3>3, GoOnOK DEF PassOrWait, Visits
    <3>4. CASE Choice(t, p)
      BY <3>4, GoOnOK, RaiseOK DEF Choice, Visits
    <3>5. CASE Fail(t, p)
      BY <3>5, RaiseOK DEF Fail, Visits
    <3>. QED BY <2>1, <3>1, <3>2, <3>3, <3>4, <3>5, SucceedOK, ForkOK, JoinOK
  <2>2. CASE Finish(t)
    BY <2>2, FinishOK
  <2>3. CASE Record(t)
    BY <2>3, LastStatement DEF Record
  <2>. QED BY <1>3, <2>1, <2>2, <2>3 DEF Execute
<1>4. CASE Crash
  BY <1>4, BreakOffOK DEF Crash
<1>5. ASSUME NEW t \in Workers, Fails(t)
      PROVE  LocalInv'
  BY <1>5, BreakOffOK DEF Fails
<1>6. CASE UNCHANGED vars
  BY <1>6 DEF vars, requests, LocalInv
<1>. QED BY <1>1, <1>2, <1>3, <1>4, <1>5, <1>6 DEF Next

LEMMA LocalTypes ==
  ASSUME NEW s, LocalOK(s)
  PROVE  s.touches \subseteq Machines /\ (s.todo = <<>> => s = Idle)
<1>1. CASE s = Idle
  BY <1>1 DEF Idle
<1>2. CASE OnMachine(s) /\ s.todo # <<>>
  BY <1>2 DEF OnMachine
<1>3. s = Idle \/ (OnMachine(s) /\ s.todo # <<>>)
  <2>1. Creates(s) \/ Runs(s) \/ Records(s) => s.todo # <<>>
    BY Pairs, Zenon DEF Creates, Runs, Records
  <2>2. Deletes(s) => s.todo # <<>>
    BY Pairs, Zenon DEF Deletes
  <2>. QED BY <2>1, <2>2 DEF LocalOK
<1>. QED BY <1>1, <1>2, <1>3

(* What a request that runs an execution leaves alone.                     *)
LEMMA Executing ==
  ASSUME LocalInv, NEW t \in Workers, Execute(t), ~ Record(t)
  PROVE  /\ UNCHANGED sfvars
         /\ \E s : /\ Continue(t, s) /\ s.touches = local[t].touches
                   /\ s.todo = <<"run", "record">> \/ s.todo = <<"record">>
         /\ At(t, "run")
<1> DEFINE r == local[t]
           I == r.interpreters
<1>1. At(t, "run")
  BY DEF Execute, Finish
<1>2. DOMAIN r = RunFields /\ r.todo = <<"run", "record">>
  BY <1>1, AtStep DEF Runs
<1>3. ASSUME NEW J
      PROVE  LET s == [r EXCEPT !.interpreters = J] IN
             s.touches = r.touches /\ s.todo = r.todo
  BY <1>2 DEF RunFields
<1>4. ASSUME NEW J, NEW R
      PROVE  LET s == [r EXCEPT !.interpreters = J, !.raised = R] IN
             s.touches = r.touches /\ s.todo = r.todo
  BY <1>2 DEF RunFields
<1> DEFINE Moves == /\ UNCHANGED sfvars
                    /\ \E s : Continue(t, s) /\ s.touches = r.touches /\ s.todo = r.todo
<1>5. ASSUME NEW p, NEW i, Becomes(t, p, i)
      PROVE  Moves
  BY <1>3, <1>5 DEF Becomes
<1>6. ASSUME NEW p, Raise(t, p)
      PROVE  Moves
  BY ZenonT(60), <1>4, <1>6 DEF Raise
<1>7. ASSUME NEW p, Fork(t, p)
      PROVE  Moves
  BY <1>3, <1>7 DEF Fork
<1>8. ASSUME NEW p, NEW ended, NEW errors, Joining(t, p, ended, errors)
      PROVE  Moves
  <2>1. CASE errors # {}
    <3> DEFINE over == {q \in Children(t, p) : Ended(t, q)}
               rest == [q \in DOMAIN I \ over |-> I[q]]
               J == [rest EXCEPT ![p].status = "raised"]
               R == r.raised \cup {p}
               s == [r EXCEPT !.interpreters = J, !.raised = R]
    <3>1. s = [r EXCEPT !.interpreters = J, !.raised = @ \cup {p}]
      OBVIOUS
    <3>2. Continue(t, s) /\ UNCHANGED sfvars
      BY <1>8, <2>1, <3>1 DEF Joining
    <3> HIDE DEF J, R
    <3>. QED BY <1>4, <3>2
  <2>2. CASE errors = {}
    BY <1>3, <1>8, <2>2 DEF Joining
  <2>. QED BY <2>1, <2>2
<1>9. CASE Finish(t)
  <2> DEFINE next == [r EXCEPT !.todo = Tail(@)]
             status == IF I[<<>>].status = "returned" THEN "SUCCEEDED" ELSE "FAILED"
             s == Also(next, [status |-> status])
  <2>1. Continue(t, s) /\ UNCHANGED sfvars
    BY <1>9 DEF Finish
  <2>2. /\ "todo" \in DOMAIN next /\ "touches" \in DOMAIN next
        /\ next.todo = <<"record">> /\ next.touches = r.touches
    BY <1>2, Pairs DEF RunFields
  <2>3. s.todo = <<"record">> /\ s.touches = r.touches
    <3> HIDE DEF next
    <3>. QED BY <2>2 DEF Also
  <2>. QED BY <1>1, <2>1, <2>3
<1>10. ASSUME NEW p, \/ Stray(t, p) \/ Task(t, p) \/ PassOrWait(t, p) \/ Choice(t, p)
                     \/ Succeed(t, p) \/ Fail(t, p) \/ Fork(t, p) \/ Join(t, p)
       PROVE  Moves
  <2> HIDE DEF Moves
  <2>1. GoOn(t, p) => Moves
    BY <1>5 DEF GoOn
  <2>2. CASE Stray(t, p) \/ Fail(t, p)
    BY <1>6, <2>2 DEF Stray, Fail
  <2>3. CASE Task(t, p) \/ PassOrWait(t, p) \/ Choice(t, p)
    BY <1>6, <2>1, <2>3 DEF Task, PassOrWait, Choice
  <2>4. CASE Succeed(t, p)
    BY <1>5, <2>4 DEF Succeed
  <2>5. CASE Join(t, p)
    BY <1>8, <2>5 DEF Join
  <2>. QED BY <1>7, <1>10, <2>2, <2>3, <2>4, <2>5
<1>11. Finish(t) \/ Moves
  BY <1>10 DEF Execute
<1>. QED BY <1>1, <1>2, <1>9, <1>11

(* A step of a request that goes on or ends.                               *)
LEMMA Continued ==
  ASSUME LocalInv, NEW t \in Workers, NEW s, Continue(t, s)
  PROVE  /\ disturbed' = disturbed /\ begun' = begun
         /\ local'[t] = (IF s.todo = <<>> THEN Idle ELSE s)
         /\ \A u \in Workers : u # t => local'[u] = local[u]
<1>1. DOMAIN local = Workers
  BY DEF LocalInv
<1>. QED BY <1>1 DEF Continue

LEMMA Advanced ==
  ASSUME LocalInv, NEW t \in Workers, NEW step, Does(t, step),
         step \in {"create", "record"} \/ step = "drop machine"
  PROVE  /\ disturbed' = disturbed /\ begun' = begun /\ local'[t] = Idle
         /\ \A u \in Workers : u # t => local'[u] = local[u]
<1> DEFINE r == local[t]
           s == [r EXCEPT !.todo = Tail(@)]
<1>1. At(t, step) /\ Continue(t, s)
  BY DEF Does, Advance
<1>2. r.todo = <<step>> /\ "todo" \in DOMAIN r
  <2>1. CASE step = "create"
    BY <1>1, <2>1, AtStep DEF Creates, OnMachine
  <2>2. CASE step = "record"
    BY <1>1, <2>2, AtStep DEF Records, OnMachine
  <2>3. CASE step = "drop machine"
    BY <1>1, <2>3, AtStep DEF OnMachine
  <2>. QED BY <2>1, <2>2, <2>3
<1>3. s.todo = <<>>
  BY <1>2, Pairs
<1> HIDE DEF s
<1>4. /\ disturbed' = disturbed /\ begun' = begun
      /\ local'[t] = (IF s.todo = <<>> THEN Idle ELSE s)
      /\ \A u \in Workers : u # t => local'[u] = local[u]
  <2>1. Continue(t, s)
    BY <1>1
  <2>. QED BY <2>1, Continued, Zenon
<1>. QED BY <1>3, <1>4

LEMMA BeginSteps ==
  ASSUME TypeOK, NEW t \in Workers, Accept(t)
  PROVE  /\ UNCHANGED sfvars
         /\ \E n \in Machines : \E s :
               /\ Begin(t, s) /\ s.touches = {n}
               /\ \/ s.todo = <<"create">>
                  \/ s.todo = <<"drop executions", "drop machine">>
                  \/ s.todo = <<"run", "record">> /\ machines[n] # NoMachine
<1>1. ASSUME NEW n \in Machines, NEW todo, NEW r, {"todo", "touches", "machine"} \cap DOMAIN r = {}
      PROVE  On(n, todo, r).todo = todo /\ On(n, todo, r).touches = {n}
  <2> DEFINE s == On(n, todo, r)
  <2>1. s = On(n, todo, r)
    OBVIOUS
  <2> HIDE DEF s
  <2>2. Asks(s, n, todo, r)
    BY <1>1, <2>1, OnOK
  <2>. QED BY <2>1, <2>2 DEF Asks
<1>2. ASSUME NEW n \in Machines, NEW d \in Created, CreateCheck(t, n, d)
      PROVE  \E s : Begin(t, s) /\ s.touches = {n} /\ s.todo = <<"create">>
  <2> DEFINE r == [definition |-> d]
             s == On(n, <<"create">>, r)
  <2>1. Begin(t, s)
    BY <1>2 DEF CreateCheck, Ask
  <2>2. {"todo", "touches", "machine"} \cap DOMAIN r = {}
    OBVIOUS
  <2> HIDE DEF r
  <2>3. s.todo = <<"create">> /\ s.touches = {n}
    BY <1>1, <2>2
  <2>. QED BY <2>1, <2>3
<1>3. ASSUME NEW n \in Machines, DeleteRequire(t, n)
      PROVE  \E s : Begin(t, s) /\ s.touches = {n} /\ s.todo = <<"drop executions", "drop machine">>
  <2> DEFINE todo == <<"drop executions", "drop machine">>
             s == On(n, todo, <<>>)
  <2>1. Begin(t, s)
    BY <1>3 DEF DeleteRequire, Ask
  <2> HIDE DEF todo
  <2>2. {"todo", "touches", "machine"} \cap DOMAIN <<>> = {}
    OBVIOUS
  <2>3. s.todo = todo /\ s.touches = {n}
    BY <1>1, <2>2
  <2> HIDE DEF s
  <2>. QED BY <2>1, <2>3, Zenon DEF todo
<1>4. ASSUME NEW n \in Machines, NEW e \in Executions, Start(t, n, e)
      PROVE  \E s : Begin(t, s) /\ s.touches = {n} /\ s.todo = <<"run", "record">>
  <2> DEFINE r == [execution |-> e, raised |-> {},
                   interpreters |-> [p \in {<<>>} |-> Interpreter(machines[n])]]
             s == On(n, <<"run", "record">>, r)
  <2>1. Begin(t, s)
    BY <1>4 DEF Start, Ask
  <2>2. {"todo", "touches", "machine"} \cap DOMAIN r = {}
    OBVIOUS
  <2> HIDE DEF r
  <2>3. s.todo = <<"run", "record">> /\ s.touches = {n}
    BY <1>1, <2>2
  <2>. QED BY <2>1, <2>3
<1>5. UNCHANGED sfvars
  BY DEF Accept, CreateCheck, DeleteRequire, Start, Ask
<1>6. \E n \in Machines : \E s :
               /\ Begin(t, s) /\ s.touches = {n}
               /\ \/ s.todo = <<"create">>
                  \/ s.todo = <<"drop executions", "drop machine">>
                  \/ s.todo = <<"run", "record">> /\ machines[n] # NoMachine
  <2>1. PICK n \in Machines : \/ \E d \in Created : CreateCheck(t, n, d)
                              \/ \E e \in Executions : Start(t, n, e)
                              \/ DeleteRequire(t, n)
    BY DEF Accept
  <2>2. CASE \E d \in Created : CreateCheck(t, n, d)
    BY <1>2, <2>2, Zenon
  <2>3. CASE \E e \in Executions : Start(t, n, e)
    <3>1. machines[n] # NoMachine
      BY <2>3 DEF Start
    <3>. QED BY <1>4, <2>3, <3>1, Zenon
  <2>4. CASE DeleteRequire(t, n)
    BY <1>3, <2>4, Zenon
  <2>. QED BY <2>1, <2>2, <2>3, <2>4
<1>. QED BY <1>5, <1>6, Zenon

LEMMA TypeStep ==
  ASSUME TypeOK, LocalInv, [Next]_vars, LocalInv'
  PROVE  TypeOK'
<1>1. /\ DOMAIN local' = Workers
      /\ \A t \in Workers : /\ local'[t].touches \subseteq Machines
                            /\ local'[t].todo = <<>> => local'[t] = Idle
  <2>1. \A t \in Workers : LocalOK(local'[t])
    BY DEF LocalInv
  <2>2. DOMAIN local' = Workers
    BY DEF LocalInv
  <2>. QED BY <2>1, <2>2, LocalTypes
<1>2. /\ begun' \in 0 .. MaxRequests
      /\ disturbed' \subseteq Machines
  <2>0. /\ begun \in 0 .. MaxRequests /\ MaxRequests \in Nat /\ disturbed \subseteq Machines
        /\ \A t \in Workers : local[t].touches \subseteq Machines
    BY RequestsAssumption DEF TypeOK, RequestsTypeOK
  <2>1. ASSUME NEW t \in Workers, Accept(t)
        PROVE  begun' \in 0 .. MaxRequests /\ disturbed' \subseteq Machines
    <3>1. PICK n \in Machines : \E s : Begin(t, s) /\ s.touches = {n}
      BY <2>1, BeginSteps, Zenon
    <3>2. PICK s : Begin(t, s) /\ s.touches = {n}
      BY <3>1
    <3>. QED BY <2>0, <3>2 DEF Begin
  <2>2. ASSUME NEW t \in Workers, Administer(t) \/ Execute(t)
        PROVE  begun' = begun /\ disturbed' = disturbed
    <3>1. CASE Execute(t) /\ ~ Record(t)
      BY <3>1, Executing, Continued
    <3>2. CASE Record(t) \/ Create(t) \/ DropMachine(t) \/ DropExecutions(t)
      BY <3>2 DEF Record, Create, DropMachine, DropExecutions, Does, Advance, Continue
    <3>. QED BY <2>2, <3>1, <3>2 DEF Administer
  <2>3. ASSUME NEW S \in SUBSET Workers, BreakOff(S)
        PROVE  begun' = begun /\ disturbed' \subseteq Machines
    BY <2>0, <2>3 DEF BreakOff
  <2>4. CASE UNCHANGED vars
    BY <2>0, <2>4 DEF vars, requests
  <2>. QED BY <2>0, <2>1, <2>2, <2>3, <2>4 DEF Next, Crash, Fails
<1>3. machines' \in [Machines -> Created \cup {NoMachine}]
  <2>1. ASSUME NEW t \in Workers, Create(t)
        PROVE  machines' \in [Machines -> Created \cup {NoMachine}]
    <3>1. local[t].definition \in Created
      BY <2>1, AtStep DEF Create, Does, Creates
    <3>. QED BY <2>1, <3>1 DEF Create, TypeOK
  <2>2. ASSUME NEW t \in Workers, DropMachine(t)
        PROVE  machines' \in [Machines -> Created \cup {NoMachine}]
    BY <2>2 DEF DropMachine, TypeOK
  <2>3. ASSUME NEW t \in Workers, Accept(t) \/ Execute(t) \/ DropExecutions(t)
        PROVE  UNCHANGED machines
    BY <2>3, BeginSteps, Executing DEF DropExecutions, Record, sfvars
  <2>4. CASE UNCHANGED machines
    BY <2>4 DEF TypeOK
  <2>. QED BY <2>1, <2>2, <2>3, <2>4 DEF Next, Administer, vars, sfvars
<1>4. executions' \in [Executions -> Execution \cup {NoExecution}]
  <2>1. ASSUME NEW t \in Workers, Record(t)
        PROVE  executions' \in [Executions -> Execution \cup {NoExecution}]
    <3>1. /\ local[t].machine \in Machines /\ local[t].status \in {"SUCCEEDED", "FAILED"}
      BY <2>1, AtStep DEF Record, Does, Records, OnMachine
    <3>2. [machine |-> local[t].machine, status |-> local[t].status] \in Execution
      BY <3>1 DEF Execution
    <3>. QED BY <2>1, <3>2 DEF Record, TypeOK
  <2>2. ASSUME NEW t \in Workers, DropExecutions(t)
        PROVE  executions' \in [Executions -> Execution \cup {NoExecution}]
    BY <2>2 DEF DropExecutions, TypeOK
  <2>3. ASSUME NEW t \in Workers, \/ Accept(t) \/ Create(t) \/ DropMachine(t)
                                  \/ Execute(t) /\ ~ Record(t)
        PROVE  UNCHANGED executions
    BY <2>3, BeginSteps, Executing DEF Create, DropMachine, sfvars
  <2>4. CASE UNCHANGED executions
    BY <2>4 DEF TypeOK
  <2>. QED BY <2>1, <2>2, <2>3, <2>4 DEF Next, Administer, vars, sfvars
<1>. QED BY <1>1, <1>2, <1>3, <1>4 DEF TypeOK, RequestsTypeOK

LEMMA MachineStep ==
  ASSUME TypeOK, LocalInv, MachineInv, [Next]_vars
  PROVE  MachineInv'
<1>0. /\ DOMAIN local = Workers /\ Idle.touches = {}
      /\ \A u \in Workers : LocalOK(local[u])
      /\ \A e \in Executions, u \in Machines : executions[e] # NoExecution =>
            executions[e].machine \in Machines
  BY DEF LocalInv, Idle, TypeOK, Execution
(* A request begins: it finds its machine, and nobody at work on it.       *)
<1>1. ASSUME NEW t \in Workers, Accept(t)
      PROVE  MachineInv'
  <2>0. PICK m \in Machines : \E s :
               /\ Begin(t, s) /\ s.touches = {m}
               /\ \/ s.todo = <<"create">>
                  \/ s.todo = <<"drop executions", "drop machine">>
                  \/ s.todo = <<"run", "record">> /\ machines[m] # NoMachine
    BY <1>1, BeginSteps, Zenon
  <2>1. PICK s :
               /\ Begin(t, s) /\ s.touches = {m}
               /\ \/ s.todo = <<"create">>
                  \/ s.todo = <<"drop executions", "drop machine">>
                  \/ s.todo = <<"run", "record">> /\ machines[m] # NoMachine
    BY <2>0, Zenon
  <2>2. /\ UNCHANGED <<machines, executions>>
        /\ local[t] = Idle /\ local'[t] = s
        /\ \A u \in Workers : u # t => local'[u] = local[u]
        /\ \A n \in Machines : n \notin disturbed' =>
              n \notin disturbed /\ ~ (n = m /\ \E u \in Workers : n \in local[u].touches)
    BY <1>0, <1>1, <2>1, BeginSteps DEF Begin, sfvars
  <2>3. /\ ~ (s.todo # <<>> /\ Head(s.todo) = "drop machine")
        /\ \/ ~ (s.todo # <<>> /\ (Head(s.todo) = "run" \/ Head(s.todo) = "record"))
           \/ machines[m] # NoMachine
    <3>1. CASE s.todo = <<"create">>
      BY <3>1
    <3>2. CASE s.todo = <<"drop executions", "drop machine">>
      <4>1. Head(s.todo) = "drop executions"
        BY <3>2, Pairs, Zenon
      <4>. QED BY <4>1
    <3>3. CASE s.todo = <<"run", "record">> /\ machines[m] # NoMachine
      BY <3>3
    <3>. QED BY <2>1, <3>1, <3>2, <3>3
  <2>4. ASSUME NEW n \in Machines, n \notin disturbed'
        PROVE  MachineOK(n)'
    <3>1. MachineOK(n)
      BY <2>2, <2>4 DEF MachineInv
    <3>2. /\ n \in s.touches => n = m /\ \A u \in Workers : n \notin local[u].touches
          /\ n \in local'[t].touches => n \in s.touches
      BY <2>1, <2>2, <2>4
    <3>. QED BY <2>2, <2>3, <3>1, <3>2 DEF MachineOK, At
  <2>. QED BY <2>4 DEF MachineInv
<1>2. ASSUME NEW t \in Workers, Create(t)
      PROVE  MachineInv'
  <2>1. /\ disturbed' = disturbed /\ local'[t] = Idle
        /\ \A u \in Workers : u # t => local'[u] = local[u]
        /\ executions' = executions
    BY <1>2, Advanced DEF Create
  <2>2. \A n \in Machines : machines[n] # NoMachine => machines'[n] # NoMachine
    <3>1. local[t].definition # NoMachine
      BY <1>2, AtStep, StepFunctionsAssumption DEF Create, Does, Creates
    <3>. QED BY <1>2, <3>1 DEF Create, TypeOK
  <2>3. ASSUME NEW n \in Machines \ disturbed
        PROVE  MachineOK(n)'
    <3>1. MachineOK(n)
      BY <2>3 DEF MachineInv
    <3>2. \A u \in Workers : n \in local'[u].touches => local'[u] = local[u]
      BY <1>0, <2>1
    <3>3. \A u \in Workers : n \in local'[u].touches =>
            /\ n \in local[u].touches
            /\ At(u, "run")' \/ At(u, "record")' => At(u, "run") \/ At(u, "record")
            /\ At(u, "drop machine")' => At(u, "drop machine")
      BY <3>2 DEF At
    <3>. QED BY <2>1, <2>2, <3>1, <3>3 DEF MachineOK
  <2>. QED BY <2>1, <2>3 DEF MachineInv
(* The executions of a machine go before it does.                          *)
<1>3. ASSUME NEW t \in Workers, DropExecutions(t)
      PROVE  MachineInv'
  <2> DEFINE m == local[t].machine
             r == [local[t] EXCEPT !.todo = <<"drop machine">>]
  <2>1. OnMachine(local[t])
    BY <1>3, AtStep DEF DropExecutions, Does
  <2>2. local' = [local EXCEPT ![t] = r]
    BY <1>3, DropExecutionsOK DEF DropExecutions
  <2>3. r.touches = {m} /\ r.todo = <<"drop machine">>
    BY <2>1 DEF OnMachine
  <2> HIDE DEF r
  <2>4. /\ disturbed' = disturbed /\ machines' = machines
        /\ local'[t] = r /\ local[t].touches = {m}
        /\ \A u \in Workers : u # t => local'[u] = local[u]
    BY <1>0, <1>3, <2>1, <2>2 DEF DropExecutions, Does, Advance, Continue, OnMachine
  <2>5. \A e \in Executions :
           \/ executions'[e] = NoExecution
           \/ executions'[e] = executions[e] /\ executions[e].machine # m
    BY <1>3 DEF DropExecutions
  <2>6. ~ (Head(r.todo) = "run" \/ Head(r.todo) = "record")
    <3>1. Head(r.todo) = "drop machine"
      BY <2>3, Pairs, Zenon
    <3>. QED BY <3>1
  <2>7. ASSUME NEW n \in Machines \ disturbed
        PROVE  MachineOK(n)'
    <3>1. MachineOK(n)
      BY <2>7 DEF MachineInv
    <3>2. \A u, v \in Workers : n \in local'[u].touches /\ n \in local'[v].touches => u = v
      BY <2>3, <2>4, <3>1 DEF MachineOK
    <3>3. \A e \in Executions : executions'[e] # NoExecution /\ executions'[e].machine = n
             => machines'[n] # NoMachine
      BY <2>4, <2>5, <3>1 DEF MachineOK
    <3>4. ASSUME NEW u \in Workers, n \in local'[u].touches
          PROVE  /\ At(u, "run")' \/ At(u, "record")' => machines'[n] # NoMachine
                 /\ At(u, "drop machine")' =>
                      \A e \in Executions : executions'[e] = NoExecution \/ executions'[e].machine # n
      <4>1. CASE u = t
        BY <2>3, <2>4, <2>5, <2>6, <3>4, <4>1 DEF At
      <4>2. CASE u # t
        <5>1. local'[u] = local[u]
          BY <2>4, <4>2
        <5>2. (At(u, "run")' <=> At(u, "run")) /\ (At(u, "record")' <=> At(u, "record"))
              /\ (At(u, "drop machine")' <=> At(u, "drop machine"))
          BY <5>1 DEF At
        <5>. QED BY <2>4, <2>5, <3>1, <3>4, <5>1, <5>2 DEF MachineOK
      <4>. QED BY <4>1, <4>2
    <3>. QED BY <3>2, <3>3, <3>4 DEF MachineOK
  <2>. QED BY <2>4, <2>7 DEF MachineInv
<1>4. ASSUME NEW t \in Workers, DropMachine(t)
      PROVE  MachineInv'
  <2> DEFINE m == local[t].machine
  <2>1. At(t, "drop machine") /\ OnMachine(local[t])
    BY <1>4, AtStep DEF DropMachine, Does
  <2>2. /\ disturbed' = disturbed /\ local'[t] = Idle /\ executions' = executions
        /\ \A u \in Workers : u # t => local'[u] = local[u]
        /\ \A n \in Machines : n # m => machines'[n] = machines[n]
    BY <1>4, Advanced DEF DropMachine, TypeOK
  <2>3. ASSUME NEW n \in Machines \ disturbed
        PROVE  MachineOK(n)'
    <3>1. MachineOK(n)
      BY <2>3 DEF MachineInv
    <3>2. CASE n # m
      BY ZenonT(60), <1>0, <2>2, <3>1, <3>2 DEF MachineOK, At
    <3>3. CASE n = m
      <4>1. n \in local[t].touches
        BY <2>1, <3>3 DEF OnMachine
      <4>2. \A e \in Executions : executions[e] = NoExecution \/ executions[e].machine # n
        BY <2>1, <3>1, <4>1 DEF MachineOK
      <4>3. \A u \in Workers : n \notin local'[u].touches
        BY <1>0, <2>2, <3>1, <4>1 DEF MachineOK
      <4>. QED BY <2>2, <4>2, <4>3 DEF MachineOK
    <3>. QED BY <3>2, <3>3
  <2>. QED BY <2>2, <2>3 DEF MachineInv
<1>5. ASSUME NEW t \in Workers, Execute(t), ~ Record(t)
      PROVE  MachineInv'
  <2>1. PICK s : /\ Continue(t, s) /\ s.touches = local[t].touches
                 /\ s.todo = <<"run", "record">> \/ s.todo = <<"record">>
    BY <1>5, Executing
  <2>2. /\ disturbed' = disturbed /\ UNCHANGED <<machines, executions>>
        /\ local'[t] = s /\ At(t, "run")
        /\ \A u \in Workers : u # t => local'[u] = local[u]
    BY <1>5, <2>1, Executing, Continued, Pairs DEF sfvars
  <2>3. ~ (Head(s.todo) = "drop machine")
    <3>1. Head(s.todo) = "run" \/ Head(s.todo) = "record"
      BY <2>1, Pairs, Zenon
    <3>. QED BY <3>1
  <2>4. ASSUME NEW n \in Machines \ disturbed
        PROVE  MachineOK(n)'
    <3>1. MachineOK(n)
      BY <2>4 DEF MachineInv
    <3>2. \A u \in Workers : n \in local'[u].touches => n \in local[u].touches
      BY <2>1, <2>2
    <3>3. \A u \in Workers :
            /\ At(u, "run")' \/ At(u, "record")' => At(u, "run") \/ At(u, "record")
            /\ At(u, "drop machine")' => At(u, "drop machine")
      BY <2>2, <2>3 DEF At
    <3>. QED BY <2>2, <3>1, <3>2, <3>3 DEF MachineOK
  <2>. QED BY <2>2, <2>4 DEF MachineInv
(* The machine of an undisturbed execution is there when it is recorded.   *)
<1>6. ASSUME NEW t \in Workers, Record(t)
      PROVE  MachineInv'
  <2> DEFINE m == local[t].machine
             row == [machine |-> m, status |-> local[t].status]
  <2>1. At(t, "record") /\ OnMachine(local[t])
    BY <1>6, AtStep DEF Record, Does
  <2>2. /\ disturbed' = disturbed /\ local'[t] = Idle /\ machines' = machines
        /\ \A u \in Workers : u # t => local'[u] = local[u]
    BY <1>6, Advanced DEF Record
  <2>3. \A e \in Executions : executions'[e] = executions[e] \/ executions'[e] = row
    BY <1>6 DEF Record, TypeOK
  <2>4. ASSUME NEW n \in Machines \ disturbed
        PROVE  MachineOK(n)'
    <3>1. MachineOK(n)
      BY <2>4 DEF MachineInv
    <3>2. CASE n # m
      <4>1. \A e \in Executions : executions'[e] # NoExecution /\ executions'[e].machine = n =>
               executions[e] # NoExecution /\ executions[e].machine = n
        BY <2>3, <3>2
      <4>2. \A e \in Executions : (executions[e] = NoExecution \/ executions[e].machine # n) =>
               (executions'[e] = NoExecution \/ executions'[e].machine # n)
        BY <2>3, <3>2
      <4>. QED BY <1>0, <2>2, <3>1, <4>1, <4>2 DEF MachineOK, At
    <3>3. CASE n = m
      <4>1. n \in local[t].touches
        BY <2>1, <3>3 DEF OnMachine
      <4>2. machines[n] # NoMachine
        BY <2>1, <3>1, <4>1 DEF MachineOK
      <4>3. \A u \in Workers : n \notin local'[u].touches
        BY <1>0, <2>2, <3>1, <4>1 DEF MachineOK
      <4>. QED BY <2>2, <4>2, <4>3 DEF MachineOK
    <3>. QED BY <3>2, <3>3
  <2>. QED BY <2>2, <2>4 DEF MachineInv
<1>7. ASSUME NEW S, BreakOff(S), UNCHANGED sfvars
      PROVE  MachineInv'
  <2>1. /\ UNCHANGED <<machines, executions>>
        /\ \A u \in Workers : local'[u] = Idle \/ local'[u] = local[u]
        /\ disturbed \subseteq disturbed'
    BY <1>7 DEF BreakOff, sfvars
  <2>2. ASSUME NEW n \in Machines \ disturbed'
        PROVE  MachineOK(n)'
    <3>1. MachineOK(n)
      BY <2>1, <2>2 DEF MachineInv
    <3>2. \A u \in Workers : n \in local'[u].touches => local'[u] = local[u]
      BY <1>0, <2>1
    <3>. QED BY <2>1, <3>1, <3>2 DEF MachineOK, At
  <2>. QED BY <2>2 DEF MachineInv
<1>8. CASE UNCHANGED vars
  BY <1>8 DEF vars, requests, sfvars, MachineInv, MachineOK, At
<1>. QED BY <1>1, <1>2, <1>3, <1>4, <1>5, <1>6, <1>7, <1>8 DEF Next, Administer, Crash, Fails

(***************************************************************************)
(* The theorems.                                                           *)
(***************************************************************************)

LEMMA InvHolds == Spec => []Inv
<1>1. Init => Inv
  <2> SUFFICES ASSUME Init PROVE Inv
    OBVIOUS
  <2>1. local = [t \in Workers |-> Idle] /\ Idle.todo = <<>> /\ Idle.touches = {}
    BY DEF Init, InitRequests, Idle
  <2>2. TypeOK
    BY <2>1, RequestsAssumption DEF Init, InitRequests, TypeOK, RequestsTypeOK
  <2>3. LocalInv
    BY <2>1 DEF LocalInv, LocalOK
  <2>4. MachineInv
    BY <2>1 DEF Init, MachineInv, MachineOK
  <2>. QED BY <2>2, <2>3, <2>4 DEF Inv
<1>2. Inv /\ [Next]_vars => Inv'
  <2> SUFFICES ASSUME Inv, [Next]_vars PROVE Inv'
    OBVIOUS
  <2>1. LocalInv'
    BY LocalStep DEF Inv
  <2>2. TypeOK'
    BY <2>1, TypeStep DEF Inv
  <2>3. MachineInv'
    BY MachineStep DEF Inv
  <2>. QED BY <2>1, <2>2, <2>3 DEF Inv
<1>. QED BY <1>1, <1>2, PTL DEF Spec

(* stepfunctions.py:286-289: delete_state_machine drops the executions of  *)
(* a machine before the machine, and start_execution inserts its row when  *)
(* the run is over.  However many requests there are, a row without its    *)
(* machine needs two of them that overlapped, or one that broke off.       *)
THEOREM RecordsCorrect == Spec => []RecordsOK
<1>1. Inv => RecordsOK
  <2> SUFFICES ASSUME Inv PROVE RecordsOK
    OBVIOUS
  <2>1. ASSUME NEW e \in Executions, executions[e] # NoExecution, Quiet(executions[e].machine)
        PROVE  machines[executions[e].machine] # NoMachine
    <3>1. executions[e].machine \in Machines \ disturbed
      BY <2>1 DEF Inv, TypeOK, Execution, Quiet
    <3>. QED BY <2>1, <3>1 DEF Inv, MachineInv, MachineOK
  <2>. QED BY <2>1 DEF Inv, RecordsOK, ExecutionsHaveMachines
<1>. QED BY <1>1, InvHolds, PTL

(* stepfunctions.py:231-237: _exec_parallel starts a thread per branch and *)
(* joins them all, so that at every depth an interpreter with one below it *)
(* waits.                                                                  *)
THEOREM ParentsAlwaysWait == Spec => []ParentsWait
<1>1. Inv => ParentsWait
  <2> SUFFICES ASSUME Inv PROVE ParentsWait
    OBVIOUS
  <2>1. ASSUME NEW t \in Workers, "interpreters" \in DOMAIN local[t]
        PROVE  LET all == local[t].interpreters IN
               \A p \in DOMAIN all : \A q \in DOMAIN all :
                  Len(p) < Len(q) /\ SubSeq(q, 1, Len(p)) = p => all[p].status = "joining"
    <3>1. Tree(local[t].interpreters)
      BY <2>1 DEF Inv, LocalInv, LocalOK, Idle, Runs, Records
    <3>. QED BY <3>1 DEF Tree, Above
  <2>. QED BY <2>1 DEF ParentsWait
<1>. QED BY <1>1, InvHolds, PTL

(* stepfunctions.py:224-237 and 318-327: an error of any branch is raised  *)
(* again by the join, up to start_execution, which records FAILED then and *)
(* only then.                                                              *)
THEOREM FailuresSurface == Spec => []FailedIfAnyRaised
<1>1. Inv => FailedIfAnyRaised
  <2> SUFFICES ASSUME Inv, NEW t \in Workers, At(t, "record")
               PROVE  (local[t].status = "FAILED") = (local[t].raised # {})
    BY DEF FailedIfAnyRaised
  <2>1. Records(local[t])
    BY AtStep DEF Inv
  <2>. QED BY <2>1 DEF Records
<1>. QED BY <1>1, InvHolds, PTL
=============================================================================
