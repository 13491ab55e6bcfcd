---------------------- MODULE SubscriptionBillingProofs ----------------------
(***************************************************************************)
(* Proofs about SubscriptionBilling for any number of subscriptions and of *)
(* requests, any interval, batch and cap, and any bounds.                  *)
(*                                                                         *)
(* IInv is inductive.  No statement that mints is guarded by what the      *)
(* process read of the cycle: what keeps two of them apart is the external *)
(* id of the attempt.  The invariant says so: attempts are numbered        *)
(* without gaps, only the next number may be taken, by one process, and    *)
(* only when nobody is asked to pay the number before it.                  *)
(***************************************************************************)
EXTENDS SubscriptionBilling, FiniteSetTheorems, TLAPS

Awaiting(c, k) == invoice[c][k].status = "open" /\ invoice[c][k].intent = "created"

\* The invoices of a cycle are those attached to it and at most the next one.
Numbered(c) ==
  /\ cycle[c].invoice = None <=> cycle[c].attempts = 0
  /\ cycle[c].invoice # None => cycle[c].invoice = cycle[c].attempts
  /\ \A k \in Attempts :
       /\ invoice[c][k].status # "none" => k <= cycle[c].attempts + 1
       /\ k <= cycle[c].attempts => invoice[c][k].status # "none"
       /\ k < cycle[c].attempts => ~Awaiting(c, k)

\* Nobody is asked to pay the last attempt.
LastSettled(c) == \A k \in Attempts : k = cycle[c].attempts => ~Awaiting(c, k)

\* Past due means that the last attempt is not awaited any more, and so does an
\* invoice beyond it.
NextOnlyAfterLast(c) ==
  /\ cycle[c].status = "past_due" => cycle[c].attempts # 0 /\ LastSettled(c)
  /\ \A k \in Attempts :
       k = cycle[c].attempts + 1 /\ invoice[c][k].status # "none" => LastSettled(c)

\* Past the look at the cycle, and past the insert of the invoice.
Drafting == {"mint_check", "mint_insert", "mint_intent", "mint_attach"}
Owning   == {"mint_intent", "mint_attach"}

\* A process knows the subscription, and the period, that it works on.
Placed(j) ==
  /\ j.pc \in DueLabels \cup MintLabels \cup {"change"} => j.sub \in Subs
  /\ j.pc \in (DueLabels \ {"due_read"}) \cup MintLabels => j.start \in Times

\* The attempt it drafts is not beyond the next one.
Fits(j) ==
  LET c == <<j.sub, j.start>> IN
  j.pc \in Drafting =>
    /\ j.attempt <= cycle[c].attempts + 1
    /\ j.attempt = cycle[c].attempts + 1 => LastSettled(c)

\* Past its insert it owns the next attempt.
Owns(j) ==
  LET c == <<j.sub, j.start>> IN
  j.pc \in Owning => /\ j.attempt = cycle[c].attempts + 1
                     /\ invoice[c][j.attempt].status # "none"

OneOwner ==
  \A p, q \in Procs :
    job[p].pc \in Owning /\ job[q].pc \in Owning /\ Target(p) = Target(q) => p = q

CyclesInv == \A c \in Cycles : Numbered(c) /\ NextOnlyAfterLast(c)
JobsInv   == (\A p \in Procs : Placed(job[p]) /\ Fits(job[p]) /\ Owns(job[p])) /\ OneOwner

IInv == TypeOK /\ CyclesInv /\ JobsInv

-----------------------------------------------------------------------------
(* Facts about the operators.                                               *)

LEMMA Constants ==
  /\ Subs \subseteq Nat /\ Interval \in Nat /\ MaxPeriods \in Nat
  /\ MaxTime \in Nat /\ MaxAttempts \in Nat /\ MaxAttempts >= 1
  /\ MaxSetups \in Nat /\ MaxFaults \in Nat
  /\ None \notin Nat /\ Biller \in Procs /\ Requests \subseteq Procs
  /\ 0 \in Times /\ 1 \in Attempts /\ Times \subseteq Nat /\ Attempts \subseteq Nat
  /\ Creators \subseteq Procs /\ Retriers \subseteq Procs /\ Changers \subseteq Procs
BY SubsAssumption, NumbersAssumption, NoneAssumption DEF Times, Attempts, Procs, Requests

\* The records a process starts from and is left with.
LEMMA IdleTyped == /\ Idle \in Job /\ Idle.pc = "idle" /\ Idle.sub = None /\ Idle.start = None
                   /\ Idle.now \in Times /\ Placed(Idle) /\ Idle.pc \notin Drafting
BY Constants DEF Idle, Job, Labels, Changes, Placed, Drafting, DueLabels, MintLabels

\* A process that stops or goes on with something else drafts nothing.
LEMMA EndsTyped ==
  ASSUME TypeOK, NEW p \in Procs
  PROVE  /\ Rest(p) \in Job /\ Rest(p).pc = "done"
         /\ Failed(p) \in Job /\ Failed(p).pc \in {"due_next", "orphan_next", "done"}
         /\ Placed(Rest(p)) /\ Placed(Failed(p))
<1>1. Rest(p) \in Job /\ Rest(p).pc = "done"
  BY IdleTyped DEF Rest, Job, Labels
<1>2. Failed(p) \in Job /\ Failed(p).pc \in {"due_next", "orphan_next", "done"}
  <2> DEFINE pc  == IF job[p].due THEN "due_next" ELSE "orphan_next"
             one == [Idle EXCEPT !.pc = pc]
             two == [one EXCEPT !.due = job[p].due]
  <2>1. pc \in Labels /\ pc \in {"due_next", "orphan_next"}
    BY DEF Labels
  <2>2. job[p].due \in BOOLEAN /\ job[p].now \in Times
    BY DEF TypeOK, Job
  <2>3. p = Biller => Failed(p) = [two EXCEPT !.now = job[p].now]
    BY DEF Failed
  <2>4. p # Biller => Failed(p) = Rest(p)
    BY DEF Failed
  <2> HIDE DEF pc
  <2>5. one \in Job /\ one.pc = pc
    BY <2>1, IdleTyped DEF Job
  <2> HIDE DEF one
  <2>6. two \in Job /\ two.pc = pc
    BY <2>2, <2>5 DEF Job
  <2> HIDE DEF two
  <2>7. [two EXCEPT !.now = job[p].now] \in Job /\ [two EXCEPT !.now = job[p].now].pc = pc
    BY <2>2, <2>6 DEF Job
  <2>8. QED
    BY <1>1, <2>1, <2>3, <2>4, <2>7
<1>3. QED
  BY <1>1, <1>2 DEF Placed, DueLabels, MintLabels

\* The biller may look at the same subscription again.
LEMMA BilledTyped ==
  ASSUME TypeOK, NEW p \in Procs, job[p].sub \in Subs
  PROVE  /\ Billed(p) \in Job /\ Placed(Billed(p))
         /\ Billed(p).pc \in {"due_read", "due_next", "orphan_next", "done"}
<1> DEFINE one   == [Idle EXCEPT !.pc = "due_read"]
           two   == [one EXCEPT !.sub = job[p].sub]
           three == [two EXCEPT !.due = TRUE]
           four  == [three EXCEPT !.now = job[p].now]
           again == [four EXCEPT !.billed = job[p].billed + 1]
<1>1. job[p].now \in Times /\ job[p].billed + 1 \in Nat
  BY DEF TypeOK, Job
<1>2. Billed(p) = again \/ Billed(p) = Failed(p)
  BY DEF Billed
<1>3. one \in Job /\ one.pc = "due_read"
  BY IdleTyped DEF Job, Labels, DueLabels
<1> HIDE DEF one
<1>4. two \in Job /\ two.pc = "due_read" /\ two.sub = job[p].sub
  BY <1>3 DEF Job
<1> HIDE DEF two
<1>5. three \in Job /\ three.pc = "due_read" /\ three.sub = job[p].sub
  BY <1>4 DEF Job
<1> HIDE DEF three
<1>6. four \in Job /\ four.pc = "due_read" /\ four.sub = job[p].sub
  BY <1>1, <1>5 DEF Job
<1> HIDE DEF four
<1>7. again \in Job /\ again.pc = "due_read" /\ again.sub = job[p].sub
  BY <1>1, <1>6 DEF Job
<1> HIDE DEF again
<1>8. Placed(again)
  BY <1>7 DEF Placed, DueLabels, MintLabels
<1>9. QED
  BY <1>2, <1>7, <1>8, EndsTyped

\* What a process that works knows.
LEMMA PlaceTyped ==
  ASSUME TypeOK, JobsInv, NEW p \in Procs
  PROVE  /\ job[p] \in Job /\ job[p].attempt \in Attempts /\ job[p].attempt \in Nat
         /\ job[p].now \in Times /\ job[p].now \in Nat
         /\ job[p].pc \in DueLabels \cup MintLabels \cup {"change"} => job[p].sub \in Subs
         /\ job[p].pc \in (DueLabels \ {"due_read"}) \cup MintLabels =>
              /\ job[p].start \in Times /\ job[p].start \in Nat
              /\ Target(p) \in Cycles /\ Target(p) = <<job[p].sub, job[p].start>>
BY Constants DEF TypeOK, JobsInv, Placed, Job, Target, Cycles, MintLabels, DueLabels

\* The rows of a cycle and of its invoices.
LEMMA CycleTyped ==
  ASSUME TypeOK, NEW c \in Cycles
  PROVE  /\ cycle[c] \in Cycle /\ cycle[c].attempts \in 0 .. MaxAttempts
         /\ cycle[c].attempts \in Nat /\ cycle[c].invoice \in Attempts \cup {None}
         /\ \A k \in Attempts : invoice[c][k] \in Invoice /\ k \in Nat /\ k >= 1
BY Constants DEF TypeOK, Cycle, Attempts

LEMMA InitInductive == Init => IInv
<1> SUFFICES ASSUME Init PROVE IInv
  OBVIOUS
<1>1. TypeOK
  <2>1. 0 \in Times /\ 0 \in 0 .. MaxAttempts /\ 0 \in 0 .. MaxSetups /\ 0 \in 0 .. MaxFaults
    BY Constants
  <2>2. cycle \in [Cycles -> Cycle]
    BY <2>1 DEF Init, Cycle
  <2>3. invoice \in [Cycles -> [Attempts -> Invoice]]
    BY DEF Init, Invoice
  <2>4. QED
    BY <2>1, <2>2, <2>3, IdleTyped DEF Init, TypeOK, Sub, Setups
<1>2. CyclesInv
  <2>1. \A k \in Attempts : k >= 1 /\ k \in Nat
    BY Constants DEF Attempts
  <2>2. \A c \in Cycles : /\ cycle[c].attempts = 0 /\ cycle[c].invoice = None
                          /\ cycle[c].status = "none"
                          /\ \A k \in Attempts : invoice[c][k].status = "none"
    BY DEF Init
  <2>3. QED
    BY <2>1, <2>2 DEF CyclesInv, Numbered, NextOnlyAfterLast, Awaiting
<1>3. JobsInv
  BY IdleTyped DEF Init, JobsInv, Fits, Owns, OneOwner, Drafting, Owning
<1>4. QED
  BY <1>1, <1>2, <1>3 DEF IInv

-----------------------------------------------------------------------------
(* The steps that neither take nor attach an attempt.                       *)

\* Nothing becomes awaited, no attempt is taken or attached, and a process stays
\* where it was or goes where it owns nothing.
LEMMA Moves ==
  ASSUME TypeOK, CyclesInv, JobsInv, TypeOK',
         \A b \in Cycles : /\ cycle'[b].attempts = cycle[b].attempts
                           /\ cycle'[b].invoice = cycle[b].invoice,
         \A b \in Cycles, i \in Attempts :
           /\ invoice'[b][i].status # "none" <=> invoice[b][i].status # "none"
           /\ Awaiting(b, i)' => Awaiting(b, i),
         \A b \in Cycles : cycle'[b].status = "past_due" =>
           cycle[b].status = "past_due" \/ (cycle[b].attempts # 0 /\ LastSettled(b)'),
         \A q \in Procs : \/ job'[q] = job[q]
                          \/ Placed(job'[q]) /\ Fits(job'[q]) /\ job'[q].pc \notin Owning
  PROVE  CyclesInv' /\ JobsInv'
<1>1. \A b \in Cycles : LastSettled(b) => LastSettled(b)'
  BY DEF LastSettled
<1>2. CyclesInv'
  <2> SUFFICES ASSUME NEW b \in Cycles PROVE Numbered(b)' /\ NextOnlyAfterLast(b)'
    BY DEF CyclesInv
  <2>1. Numbered(b)'
    BY DEF CyclesInv, Numbered
  <2>2. NextOnlyAfterLast(b)'
    BY <1>1 DEF CyclesInv, NextOnlyAfterLast
  <2>3. QED
    BY <2>1, <2>2
<1>3. ASSUME NEW q \in Procs PROVE Placed(job'[q]) /\ Fits(job'[q]) /\ (job'[q].pc \in Owning => job'[q] = job[q])
  BY DEF JobsInv
<1>4. ASSUME NEW q \in Procs, job'[q].pc \in Drafting
      PROVE  <<job'[q].sub, job'[q].start>> \in Cycles
  BY <1>3, <1>4 DEF Placed, Drafting, MintLabels, Cycles
<1>5. ASSUME NEW q \in Procs PROVE Placed(job[q])' /\ Fits(job[q])' /\ Owns(job[q])'
  <2>1. Placed(job[q])'
    BY <1>3 DEF Placed
  <2>2. Fits(job[q])'
    BY <1>1, <1>3, <1>4 DEF Fits
  <2>3. Owns(job[q])'
    <3> SUFFICES ASSUME job'[q].pc \in Owning PROVE Owns(job[q])'
      BY DEF Owns
    <3>1. job'[q] = job[q] /\ Owns(job[q]) /\ job[q].pc \in Owning
      BY <1>3 DEF JobsInv
    <3>2. <<job[q].sub, job[q].start>> \in Cycles
      BY <1>4, <3>1 DEF Owning, Drafting
    <3>3. job[q].attempt \in Attempts
      BY DEF TypeOK, Job
    <3>4. QED
      BY <3>1, <3>2, <3>3 DEF Owns
  <2>4. QED
    BY <2>1, <2>2, <2>3
<1>6. OneOwner'
  <2> SUFFICES ASSUME NEW p \in Procs, NEW q \in Procs, job'[p].pc \in Owning,
                      job'[q].pc \in Owning, Target(p)' = Target(q)'
               PROVE  p = q
    BY DEF OneOwner
  <2>1. job'[p] = job[p] /\ job'[q] = job[q]
    BY <1>3
  <2>2. Target(p) = Target(q)
    BY <2>1 DEF Target
  <2>3. QED
    BY <2>1, <2>2 DEF JobsInv, OneOwner
<1>7. QED
  BY <1>2, <1>5, <1>6 DEF JobsInv

\* As most of them are: a process moves, and no cycle or invoice does.
LEMMA JobMoves ==
  ASSUME TypeOK, CyclesInv, JobsInv, TypeOK', NEW p \in Procs, NEW j \in Job,
         job' = [job EXCEPT ![p] = j], UNCHANGED <<cycle, invoice>>,
         Placed(j), Fits(j), j.pc \notin Owning
  PROVE  CyclesInv' /\ JobsInv'
<1>1. \A q \in Procs : job'[q] = IF q = p THEN j ELSE job[q]
  BY DEF TypeOK
<1>2. \A q \in Procs : \/ job'[q] = job[q]
                       \/ Placed(job'[q]) /\ Fits(job'[q]) /\ job'[q].pc \notin Owning
  BY <1>1
<1>3. \A b \in Cycles, i \in Attempts :
        /\ invoice'[b][i].status # "none" <=> invoice[b][i].status # "none"
        /\ Awaiting(b, i)' => Awaiting(b, i)
  BY DEF Awaiting
<1>4. \A b \in Cycles : /\ cycle'[b].attempts = cycle[b].attempts
                        /\ cycle'[b].invoice = cycle[b].invoice
  OBVIOUS
<1>5. \A b \in Cycles : cycle'[b].status = "past_due" =>
        cycle[b].status = "past_due" \/ (cycle[b].attempts # 0 /\ LastSettled(b)')
  OBVIOUS
<1>6. QED
  BY <1>2, <1>3, <1>4, <1>5, Moves

\* What a process's step does to the types when it moves itself alone.
LEMMA JobTyped ==
  ASSUME TypeOK, NEW p \in Procs, NEW j \in Job, job' = [job EXCEPT ![p] = j],
         UNCHANGED <<now, sub, cycle, order, invoice, setup, setups, faults>>,
         queue' \subseteq Cycles
  PROVE  TypeOK'
BY DEF TypeOK

\* A place in the program where nothing is drafted.
LEMMA NotDrafting ==
  ASSUME NEW j, j.pc \notin Drafting
  PROVE  Fits(j) /\ j.pc \notin Owning
BY DEF Fits, Drafting, Owning

\* The two together, for the steps that write no row.
LEMMA ReadInductive ==
  ASSUME IInv, NEW p \in Procs, NEW j \in Job, job' = [job EXCEPT ![p] = j],
         UNCHANGED <<now, sub, cycle, order, invoice, setup, setups, faults>>,
         queue' \subseteq Cycles, Placed(j), Fits(j), j.pc \notin Owning
  PROVE  IInv'
<1>1. TypeOK'
  BY JobTyped DEF IInv
<1>2. UNCHANGED <<cycle, invoice>>
  OBVIOUS
<1>3. QED
  BY <1>1, <1>2, JobMoves DEF IInv

\* The reads of the subscription and of its cycle.
LEMMA DueReadInductive ==
  ASSUME IInv, NEW p \in Procs, DueRead(p) \/ DueCycle(p)
  PROVE  IInv'
<1> USE DEF IInv
<1>1. /\ UNCHANGED <<now, sub, cycle, order, invoice, setup, setups, faults>> /\ queue' = queue
      /\ queue \subseteq Cycles /\ job[p] \in Job
  BY DEF DueRead, DueCycle, rows, world, TypeOK
<1>2. Failed(p) \in Job /\ Placed(Failed(p)) /\ Fits(Failed(p)) /\ Failed(p).pc \notin Owning
  BY EndsTyped, NotDrafting DEF Drafting
<1>3. CASE job' = [job EXCEPT ![p] = Failed(p)]
  BY <1>1, <1>2, <1>3, ReadInductive
<1>4. CASE DueRead(p) /\ job' # [job EXCEPT ![p] = Failed(p)]
  <2> DEFINE start == sub[job[p].sub].next
             one   == [job[p] EXCEPT !.pc = "due_cycle"]
             j     == [one EXCEPT !.start = start]
  <2>1. job[p].sub \in Subs
    BY <1>4, PlaceTyped DEF DueRead, At, DueLabels
  <2>2. start \in Times
    <3>1. start \in Nat \cup {None} /\ job[p].now \in Times
      BY <2>1, PlaceTyped DEF TypeOK, Sub
    <3>2. start # None /\ start <= job[p].now
      BY <1>4 DEF DueRead, Gives
    <3> HIDE DEF start
    <3>3. QED
      BY <3>1, <3>2, Constants DEF Times
  <2>3. job' = [job EXCEPT ![p] = j]
    BY <1>4 DEF DueRead, Gives, TypeOK
  <2> HIDE DEF start
  <2>4. one \in Job /\ one.pc = "due_cycle" /\ one.sub = job[p].sub
    BY <1>1 DEF Job, Labels, DueLabels
  <2> HIDE DEF one
  <2>5. j \in Job /\ j.pc = "due_cycle" /\ j.sub = job[p].sub /\ j.start = start
    BY <2>2, <2>4 DEF Job
  <2> HIDE DEF j
  <2>6. Placed(j) /\ Fits(j) /\ j.pc \notin Owning
    BY <2>1, <2>2, <2>5, NotDrafting DEF Placed, Drafting, DueLabels, MintLabels
  <2>7. QED
    BY <1>1, <2>3, <2>5, <2>6, ReadInductive
<1>5. CASE DueCycle(p)
  <2> PICK pc \in {"due_insert", "due_advance"} : job' = [job EXCEPT ![p].pc = pc]
    BY <1>5 DEF DueCycle, Goto
  <2> DEFINE j == [job[p] EXCEPT !.pc = pc]
  <2>1. job' = [job EXCEPT ![p] = j]
    BY DEF TypeOK
  <2>2. job[p].sub \in Subs /\ job[p].start \in Times
    BY <1>5, PlaceTyped DEF DueCycle, At, DueLabels
  <2>3. j \in Job /\ j.pc = pc /\ j.sub = job[p].sub /\ j.start = job[p].start
    BY <1>1 DEF Job, Labels, DueLabels
  <2> HIDE DEF j
  <2>4. Placed(j) /\ Fits(j) /\ j.pc \notin Owning
    BY <2>2, <2>3, NotDrafting DEF Placed, Drafting, DueLabels, MintLabels
  <2>5. QED
    BY <1>1, <2>1, <2>3, <2>4, ReadInductive
<1>6. QED
  BY <1>3, <1>4, <1>5

\* The row of the cycle is inserted: it is no more than pending.
LEMMA DueInsertInductive ==
  ASSUME IInv, NEW p \in Procs, DueInsert(p)
  PROVE  IInv'
<1> USE DEF IInv
<1>1. UNCHANGED <<now, sub, invoice, setup, setups, faults>> /\ queue' = queue /\ job[p] \in Job
  BY DEF DueInsert, world, TypeOK
<1>2. job[p].sub \in Subs /\ job[p].start \in Times /\ Target(p) \in Cycles
  BY PlaceTyped DEF DueInsert, At, DueLabels
<1>3. CASE cycle[Target(p)].status = "none"
  <2> DEFINE c == Target(p)
             j == [job[p] EXCEPT !.pc = "due_advance"]
             row == [cycle[c] EXCEPT !.status = "pending"]
  <2>1. /\ job' = [job EXCEPT ![p] = j] /\ order' = Append(order, c)
        /\ cycle' = [cycle EXCEPT ![c] = row]
    BY <1>2, <1>3 DEF DueInsert, Goto, TypeOK
  <2>2. j \in Job /\ j.pc = "due_advance" /\ j.sub = job[p].sub /\ j.start = job[p].start
    BY <1>1 DEF Job, Labels, DueLabels
  <2>3. row \in Cycle /\ row.status = "pending" /\ row.attempts = cycle[c].attempts
        /\ row.invoice = cycle[c].invoice
    BY <1>2, CycleTyped DEF Cycle
  <2> HIDE DEF j, row
  <2>4. Placed(j) /\ Fits(j) /\ j.pc \notin Owning
    BY <1>2, <2>2, NotDrafting DEF Placed, Drafting, DueLabels, MintLabels
  <2> HIDE DEF c
  <2>5. c \in Cycles
    BY <1>2 DEF c
  <2>6. TypeOK'
    BY <1>1, <2>1, <2>2, <2>3, <2>5 DEF TypeOK
  <2>7. \A b \in Cycles : cycle'[b] = IF b = c THEN row ELSE cycle[b]
    BY <2>1, <2>5 DEF TypeOK
  <2>8. \A q \in Procs : job'[q] = IF q = p THEN j ELSE job[q]
    BY <2>1 DEF TypeOK
  <2>9. \A b \in Cycles, i \in Attempts :
          /\ invoice'[b][i].status # "none" <=> invoice[b][i].status # "none"
          /\ Awaiting(b, i)' => Awaiting(b, i)
    BY <1>1 DEF Awaiting
  <2>10. \A b \in Cycles : /\ cycle'[b].attempts = cycle[b].attempts
                           /\ cycle'[b].invoice = cycle[b].invoice
    BY <2>3, <2>7
  <2>11. \A q \in Procs : \/ job'[q] = job[q]
                          \/ Placed(job'[q]) /\ Fits(job'[q]) /\ job'[q].pc \notin Owning
    BY <2>4, <2>8
  <2>12. \A b \in Cycles : cycle'[b].status = "past_due" =>
           cycle[b].status = "past_due" \/ (cycle[b].attempts # 0 /\ LastSettled(b)')
    BY <2>3, <2>7
  <2>13. QED
    BY <2>6, <2>9, <2>10, <2>11, <2>12, Moves
<1>4. CASE cycle[Target(p)].status # "none"
  <2>1. UNCHANGED <<cycle, order>> /\ job' = [job EXCEPT ![p] = Failed(p)] /\ queue \subseteq Cycles
    BY <1>4 DEF DueInsert, Gives, TypeOK
  <2>2. Failed(p) \in Job /\ Placed(Failed(p)) /\ Fits(Failed(p)) /\ Failed(p).pc \notin Owning
    BY EndsTyped, NotDrafting DEF Drafting
  <2>3. QED
    BY <1>1, <2>1, <2>2, ReadInductive
<1>5. QED
  BY <1>3, <1>4

\* next_billing_at moves on, and the mint begins.
LEMMA DueAdvanceInductive ==
  ASSUME IInv, NEW p \in Procs, DueAdvance(p)
  PROVE  IInv'
<1> USE DEF IInv
<1> DEFINE next == job[p].start + Interval
           row  == [sub[job[p].sub] EXCEPT !.next = next]
           j    == [job[p] EXCEPT !.pc = "mint_cycle"]
<1>1. /\ UNCHANGED <<now, cycle, order, invoice, setup, setups, faults>> /\ queue' = queue
      /\ job[p] \in Job
  BY DEF DueAdvance, world, TypeOK
<1>2. job[p].sub \in Subs /\ job[p].start \in Times /\ job[p].start \in Nat
  BY PlaceTyped DEF DueAdvance, At, DueLabels
<1>3. job' = [job EXCEPT ![p] = j] /\ sub' = [sub EXCEPT ![job[p].sub] = row]
  BY <1>2 DEF DueAdvance, Goto, TypeOK
<1>4. j \in Job /\ j.pc = "mint_cycle" /\ j.sub = job[p].sub /\ j.start = job[p].start
  BY <1>1 DEF Job, Labels, MintLabels
<1>5. next \in Nat
  BY <1>2, Constants
<1> HIDE DEF j, next
<1>6. row \in Sub
  BY <1>2, <1>5 DEF TypeOK, Sub
<1> HIDE DEF row
<1>7. Placed(j) /\ Fits(j) /\ j.pc \notin Owning
  BY <1>2, <1>4, NotDrafting DEF Placed, Drafting, DueLabels, MintLabels
<1>8. TypeOK'
  BY <1>1, <1>3, <1>4, <1>6 DEF TypeOK
<1>9. QED
  BY <1>1, <1>3, <1>4, <1>7, <1>8, JobMoves

-----------------------------------------------------------------------------
(* Minting.                                                                 *)

\* What keeps a job on its cycle and attempt.
LEMMA JobGoes ==
  ASSUME TypeOK, NEW p \in Procs, NEW pc \in Labels
  PROVE  LET j == [job[p] EXCEPT !.pc = pc] IN
         /\ j \in Job /\ j.pc = pc /\ j.sub = job[p].sub /\ j.start = job[p].start
         /\ j.attempt = job[p].attempt
         /\ [job EXCEPT ![p].pc = pc] = [job EXCEPT ![p] = j]
BY DEF TypeOK, Job

\* The cycle is looked at: a retry finds it past due, anyone else without an
\* invoice, and both draft the next attempt only where none is awaited.
LEMMA MintCycleInductive ==
  ASSUME IInv, NEW p \in Procs, MintCycle(p)
  PROVE  IInv'
<1> USE DEF IInv
<1> DEFINE c == Target(p)
<1>1. /\ UNCHANGED <<now, sub, cycle, order, invoice, setup, setups, faults>>
      /\ queue' \subseteq Cycles /\ job[p] \in Job /\ job[p].pc = "mint_cycle"
  BY DEF MintCycle, rows, world, TypeOK, At
<1>2. /\ job[p].sub \in Subs /\ job[p].start \in Times /\ c \in Cycles
      /\ c = <<job[p].sub, job[p].start>>
  BY <1>1, PlaceTyped DEF MintLabels
<1>3. /\ Failed(p) \in Job /\ Placed(Failed(p)) /\ Fits(Failed(p)) /\ Failed(p).pc \notin Owning
      /\ Billed(p) \in Job /\ Placed(Billed(p)) /\ Fits(Billed(p)) /\ Billed(p).pc \notin Owning
  BY <1>2, EndsTyped, BilledTyped, NotDrafting DEF Drafting
<1>4. CASE job' = [job EXCEPT ![p] = Failed(p)]
  BY <1>1, <1>3, <1>4, ReadInductive
<1>5. CASE job' = [job EXCEPT ![p] = Billed(p)]
  BY <1>1, <1>3, <1>5, ReadInductive
<1>6. ASSUME cycle[c].attempts # MaxAttempts,
             cycle[c].status = "past_due" \/ cycle[c].invoice = None,
             job' = [job EXCEPT ![p].pc = "mint_check", ![p].attempt = cycle[c].attempts + 1]
      PROVE  IInv'
  <2> DEFINE next == cycle[c].attempts + 1
             one  == [job[p] EXCEPT !.pc = "mint_check"]
             j    == [one EXCEPT !.attempt = next]
  <2>1. next \in Attempts
    BY <1>2, <1>6, CycleTyped, Constants DEF Attempts
  <2>2. job' = [job EXCEPT ![p] = j]
    BY <1>6 DEF TypeOK
  <2>3. one \in Job /\ one.pc = "mint_check" /\ one.sub = job[p].sub /\ one.start = job[p].start
    BY <1>1 DEF Job, Labels, MintLabels
  <2> HIDE DEF one, next
  <2>4. /\ j \in Job /\ j.pc = "mint_check" /\ j.sub = job[p].sub /\ j.start = job[p].start
        /\ j.attempt = next
    BY <2>1, <2>3 DEF Job
  <2> HIDE DEF j
  <2>5. LastSettled(c)
    <3>1. CASE cycle[c].status = "past_due"
      BY <1>2, <3>1 DEF CyclesInv, NextOnlyAfterLast
    <3>2. CASE cycle[c].invoice = None
      <4>1. cycle[c].attempts = 0
        BY <1>2, <3>2 DEF CyclesInv, Numbered
      <4>2. QED
        BY <1>2, <4>1, CycleTyped DEF LastSettled
    <3>3. QED
      BY <1>6, <3>1, <3>2
  <2>6. Fits(j)
    <3>1. next <= cycle[c].attempts + 1
      BY <1>2, CycleTyped DEF next
    <3> HIDE DEF c
    <3>2. QED
      BY <1>2, <1>6, <2>4, <2>5, <3>1 DEF Fits
  <2>7. Placed(j) /\ j.pc \notin Owning
    BY <1>2, <2>4 DEF Placed, Owning, DueLabels, MintLabels
  <2>8. QED
    BY <1>1, <2>2, <2>4, <2>6, <2>7, ReadInductive
<1>7. QED
  BY <1>4, <1>5, <1>6 DEF MintCycle, Gives

\* The external id is looked up: whatever it finds, the attempt stays the same.
LEMMA MintCheckInductive ==
  ASSUME IInv, NEW p \in Procs, MintCheck(p)
  PROVE  IInv'
<1> USE DEF IInv
<1> DEFINE j == [job[p] EXCEPT !.pc = "mint_insert"]
<1>1. /\ UNCHANGED <<now, sub, cycle, order, invoice, setup, setups, faults>>
      /\ queue' \subseteq Cycles /\ job[p].pc = "mint_check"
  BY DEF MintCheck, rows, world, TypeOK, At
<1>2. job[p].sub \in Subs /\ job[p].start \in Times
  BY <1>1, PlaceTyped DEF MintLabels
<1>3. /\ Failed(p) \in Job /\ Placed(Failed(p)) /\ Fits(Failed(p)) /\ Failed(p).pc \notin Owning
  BY EndsTyped, NotDrafting DEF Drafting
<1>4. CASE job' = [job EXCEPT ![p] = Failed(p)]
  BY <1>1, <1>3, <1>4, ReadInductive
<1>5. CASE job' = [job EXCEPT ![p].pc = "mint_insert"]
  <2>1. "mint_insert" \in Labels
    BY DEF Labels, MintLabels
  <2>2. /\ j \in Job /\ j.pc = "mint_insert" /\ j.sub = job[p].sub /\ j.start = job[p].start
        /\ j.attempt = job[p].attempt /\ job' = [job EXCEPT ![p] = j]
    BY <1>5, <2>1, JobGoes
  <2> HIDE DEF j
  <2>3. Fits(job[p])
    BY DEF JobsInv
  <2>4. Fits(j)
    BY <1>1, <2>2, <2>3 DEF Fits, Drafting
  <2>5. Placed(j) /\ j.pc \notin Owning
    BY <1>2, <2>2 DEF Placed, Owning, DueLabels, MintLabels
  <2>6. QED
    BY <1>1, <2>2, <2>4, <2>5, ReadInductive
<1>6. QED
  BY <1>4, <1>5 DEF MintCheck, Gives, Goto

\* Writing one invoice leaves every other as it was.
LEMMA InvoiceWritten ==
  ASSUME TypeOK, NEW c \in Cycles, NEW k \in Attempts, NEW row \in Invoice,
         invoice' = [invoice EXCEPT ![c][k] = row]
  PROVE  /\ invoice' \in [Cycles -> [Attempts -> Invoice]]
         /\ \A b \in Cycles, i \in Attempts :
              invoice'[b][i] = IF b = c /\ i = k THEN row ELSE invoice[b][i]
<1>1. invoice \in [Cycles -> [Attempts -> Invoice]]
  BY DEF TypeOK
<1>2. invoice' = [invoice EXCEPT ![c] = [invoice[c] EXCEPT ![k] = row]]
  BY <1>1
<1>3. QED
  BY <1>1, <1>2

\* The status or the intent of an invoice, as a row of its own.
LEMMA InvoiceFields ==
  ASSUME TypeOK, NEW c \in Cycles, NEW k \in Attempts
  PROVE  /\ \A s \in {"none", "open", "expired", "paid"} :
              LET row == [status |-> s, intent |-> invoice[c][k].intent] IN
              /\ row \in Invoice
              /\ [invoice EXCEPT ![c][k].status = s] = [invoice EXCEPT ![c][k] = row]
         /\ \A t \in {"none", "created", "submitted"} :
              LET row == [status |-> invoice[c][k].status, intent |-> t] IN
              /\ row \in Invoice
              /\ [invoice EXCEPT ![c][k].intent = t] = [invoice EXCEPT ![c][k] = row]
<1>1. invoice[c][k] \in Invoice
  BY DEF TypeOK
<1>2. \A s : [invoice[c][k] EXCEPT !.status = s] = [status |-> s, intent |-> invoice[c][k].intent]
  BY <1>1 DEF Invoice
<1>3. \A t : [invoice[c][k] EXCEPT !.intent = t] = [status |-> invoice[c][k].status, intent |-> t]
  BY <1>1 DEF Invoice
<1>4. /\ \A s : [invoice EXCEPT ![c][k].status = s] =
              [invoice EXCEPT ![c][k] = [invoice[c][k] EXCEPT !.status = s]]
      /\ \A t : [invoice EXCEPT ![c][k].intent = t] =
              [invoice EXCEPT ![c][k] = [invoice[c][k] EXCEPT !.intent = t]]
  BY DEF TypeOK
<1>5. QED
  BY <1>1, <1>2, <1>3, <1>4 DEF Invoice

\* The next attempt of a cycle is taken, or its invoice gets an intent, by the
\* one process that owns it from then on.
LEMMA NextMoves ==
  ASSUME TypeOK, CyclesInv, JobsInv, TypeOK', NEW p \in Procs, NEW j \in Job,
         job' = [job EXCEPT ![p] = j], UNCHANGED cycle,
         NEW c \in Cycles, c = <<j.sub, j.start>>, j.attempt \in Attempts,
         j.attempt = cycle[c].attempts + 1, j.pc \in Owning, Placed(j),
         LastSettled(c),
         \A b \in Cycles, i \in Attempts :
           b # c \/ i # j.attempt => invoice'[b][i] = invoice[b][i],
         invoice'[c][j.attempt].status # "none",
         \A q \in Procs : q # p /\ job[q].pc \in Owning => Target(q) # c
  PROVE  CyclesInv' /\ JobsInv'
<1>1. \A b \in Cycles : cycle[b].attempts \in Nat
  BY CycleTyped
<1>2. \A b \in Cycles, i \in Attempts :
        b # c \/ i # cycle[c].attempts + 1 => invoice'[b][i] = invoice[b][i]
  OBVIOUS
<1>3. \A b \in Cycles : LastSettled(b) => LastSettled(b)'
  <2> SUFFICES ASSUME NEW b \in Cycles, LastSettled(b), NEW k \in Attempts, k = cycle[b].attempts
               PROVE  ~Awaiting(b, k)'
    BY DEF LastSettled
  <2>1. invoice'[b][k] = invoice[b][k]
    BY <1>1, <1>2
  <2>2. QED
    BY <2>1 DEF LastSettled, Awaiting
<1>4. ASSUME NEW b \in Cycles PROVE Numbered(b)' /\ NextOnlyAfterLast(b)'
  <2>1. ASSUME NEW k \in Attempts
        PROVE  /\ invoice'[b][k].status # "none" => k <= cycle[b].attempts + 1
               /\ k <= cycle[b].attempts => invoice'[b][k].status # "none"
               /\ k < cycle[b].attempts => ~Awaiting(b, k)'
    <3>1. k \in Nat
      BY Constants
    <3>2. CASE b = c /\ k = cycle[c].attempts + 1
      BY <1>1, <3>1, <3>2
    <3>3. CASE invoice'[b][k] = invoice[b][k]
      BY <3>3 DEF CyclesInv, Numbered, Awaiting
    <3>4. QED
      BY <1>2, <3>2, <3>3
  <2>2. Numbered(b)'
    BY <2>1 DEF CyclesInv, Numbered
  <2>3. NextOnlyAfterLast(b)'
    <3>1. CASE b = c
      BY <1>3, <3>1 DEF CyclesInv, NextOnlyAfterLast
    <3>2. CASE b # c
      BY <1>2, <1>3, <3>2 DEF CyclesInv, NextOnlyAfterLast
    <3>3. QED
      BY <3>1, <3>2
  <2>4. QED
    BY <2>2, <2>3
<1>5. \A q \in Procs : job'[q] = IF q = p THEN j ELSE job[q]
  BY DEF TypeOK
<1>6. Placed(j) /\ Fits(j)' /\ Owns(j)'
  <2>1. Fits(j)'
    BY <1>1, <1>3 DEF Fits
  <2>2. Owns(j)'
    BY DEF Owns
  <2>3. QED
    BY <2>1, <2>2
<1>7. ASSUME NEW q \in Procs, q # p
      PROVE  Placed(job[q]) /\ Fits(job[q])' /\ Owns(job[q])' /\ job'[q] = job[q]
  <2> DEFINE b == <<job[q].sub, job[q].start>>
  <2>1. Placed(job[q]) /\ Fits(job[q]) /\ Owns(job[q]) /\ job'[q] = job[q] /\ job[q].attempt \in Attempts
    BY <1>5, <1>7 DEF JobsInv, TypeOK, Job
  <2>2. job[q].pc \in Drafting => b \in Cycles
    BY <2>1 DEF Placed, Drafting, MintLabels, Cycles
  <2>3. Fits(job[q])'
    BY <1>3, <2>1, <2>2 DEF Fits
  <2>4. job[q].pc \in Owning => b # c /\ b \in Cycles
    BY <1>7, <2>2 DEF Target, Owning, Drafting
  <2>5. Owns(job[q])'
    BY <1>2, <2>1, <2>4 DEF Owns
  <2>6. QED
    BY <2>1, <2>3, <2>5
<1>8. OneOwner'
  <2> SUFFICES ASSUME NEW q \in Procs, NEW r \in Procs, job'[q].pc \in Owning,
                      job'[r].pc \in Owning, Target(q)' = Target(r)'
               PROVE  q = r
    BY DEF OneOwner
  <2>1. Target(p)' = c
    BY <1>5 DEF Target
  <2>2. \A s \in Procs : s # p => Target(s)' = Target(s) /\ job'[s] = job[s]
    BY <1>5 DEF Target
  <2>3. QED
    BY <2>1, <2>2 DEF JobsInv, OneOwner
<1>9. \A q \in Procs : Placed(job[q])' /\ Fits(job[q])' /\ Owns(job[q])'
  <2> SUFFICES ASSUME NEW q \in Procs PROVE Placed(job[q])' /\ Fits(job[q])' /\ Owns(job[q])'
    OBVIOUS
  <2>1. CASE q = p
    BY <1>5, <1>6, <2>1 DEF Placed, Fits, Owns
  <2>2. CASE q # p
    BY <1>5, <1>7, <2>2 DEF Placed, Fits, Owns
  <2>3. QED
    BY <2>1, <2>2
<1>10. QED
  BY <1>4, <1>8, <1>9 DEF CyclesInv, JobsInv

\* The invoice is inserted unless its number is taken: then it was the next one,
\* and no other process owns it.
LEMMA MintInsertInductive ==
  ASSUME IInv, NEW p \in Procs, MintInsert(p)
  PROVE  IInv'
<1> USE DEF IInv
<1> DEFINE c == Target(p)
           a == job[p].attempt
           j == [job[p] EXCEPT !.pc = "mint_intent"]
<1>1. UNCHANGED <<now, sub, cycle, order, setup, setups, faults>> /\ queue' \subseteq Cycles
  BY DEF MintInsert, world, TypeOK
<1>2. job[p].pc = "mint_insert"
  BY DEF MintInsert, At
<1>3. /\ job[p].sub \in Subs /\ job[p].start \in Times /\ c \in Cycles
      /\ c = <<job[p].sub, job[p].start>> /\ a \in Attempts /\ a \in Nat
  BY <1>2, PlaceTyped DEF MintLabels
<1>4. CASE Taken(p)
  <2>1. UNCHANGED invoice /\ job' = [job EXCEPT ![p] = Failed(p)]
    BY <1>4 DEF MintInsert, Gives
  <2>2. Failed(p) \in Job /\ Placed(Failed(p)) /\ Fits(Failed(p)) /\ Failed(p).pc \notin Owning
    BY EndsTyped, NotDrafting DEF Drafting
  <2>3. QED
    BY <1>1, <2>1, <2>2, ReadInductive
<1>5. CASE ~Taken(p)
  <2>1. "mint_intent" \in Labels
    BY DEF Labels, MintLabels
  <2>2. /\ j \in Job /\ j.pc = "mint_intent" /\ j.sub = job[p].sub /\ j.start = job[p].start
        /\ j.attempt = a /\ job' = [job EXCEPT ![p] = j]
    BY <1>5, <2>1, JobGoes DEF MintInsert, Goto
  <2>3. invoice[c][a].status = "none"
    BY <1>5 DEF Taken
  <2>4. Fits(job[p])
    BY DEF JobsInv
  <2>5. /\ a <= cycle[c].attempts + 1
        /\ a = cycle[c].attempts + 1 => LastSettled(c)
    BY <1>2, <1>3, <2>4 DEF Fits, Drafting
  <2>6. a = cycle[c].attempts + 1 /\ LastSettled(c)
    <3>1. ~(a <= cycle[c].attempts)
      BY <1>3, <2>3 DEF CyclesInv, Numbered
    <3>2. cycle[c].attempts \in Nat
      BY <1>3, CycleTyped
    <3> HIDE DEF a, c
    <3>3. QED
      BY <1>3, <2>5, <3>1, <3>2
  <2>7. invoice' = [invoice EXCEPT ![c][a].status = "open"]
    BY <1>5 DEF MintInsert
  <2>8. ASSUME NEW q \in Procs, q # p, job[q].pc \in Owning PROVE Target(q) # c
    <3> SUFFICES ASSUME Target(q) = c PROVE FALSE
      OBVIOUS
    <3>1. job[q].attempt = cycle[c].attempts + 1 /\ invoice[c][job[q].attempt].status # "none"
      BY <2>8 DEF JobsInv, Owns, Target
    <3>2. QED
      BY <2>3, <2>6, <3>1
  <2> HIDE DEF j, a, c
  <2>9. /\ \A b \in Cycles, i \in Attempts :
             b # c \/ i # j.attempt => invoice'[b][i] = invoice[b][i]
        /\ invoice'[c][j.attempt].status = "open"
        /\ invoice' \in [Cycles -> [Attempts -> Invoice]]
    <3> DEFINE row == [status |-> "open", intent |-> invoice[c][a].intent]
    <3>1. row \in Invoice /\ row.status = "open" /\ invoice' = [invoice EXCEPT ![c][a] = row]
      BY <1>3, <2>7, InvoiceFields
    <3> HIDE DEF row
    <3>2. /\ invoice' \in [Cycles -> [Attempts -> Invoice]]
          /\ \A b \in Cycles, i \in Attempts :
               invoice'[b][i] = IF b = c /\ i = a THEN row ELSE invoice[b][i]
      <4>1. TypeOK /\ c \in Cycles /\ a \in Attempts
        BY <1>3
      <4>2. QED
        BY ONLY <3>1, <4>1, InvoiceWritten
    <3>3. QED
      BY <1>3, <2>2, <3>1, <3>2
  <2>10. TypeOK'
    BY <1>1, <2>2, <2>9 DEF TypeOK
  <2>11. Placed(j) /\ j.pc \in Owning
    BY <1>3, <2>2 DEF Placed, Owning, DueLabels, MintLabels
  <2>12. \A b \in Cycles, i \in Attempts :
           b # c \/ i # j.attempt => invoice'[b][i] = invoice[b][i]
    BY <2>9
  <2>13. invoice'[c][j.attempt].status # "none"
    BY <2>9
  <2>14. \A q \in Procs : q # p /\ job[q].pc \in Owning => Target(q) # c
    BY <2>8
  <2>15. c = <<j.sub, j.start>> /\ j.attempt \in Attempts /\ j.attempt = cycle[c].attempts + 1
    BY <1>3, <2>2, <2>6
  <2>16. UNCHANGED cycle /\ LastSettled(c)
    BY <1>1, <2>5, <2>6
  <2>17. j \in Job /\ job' = [job EXCEPT ![p] = j] /\ c \in Cycles
    BY <1>3, <2>2
  <2>18. TypeOK /\ CyclesInv /\ JobsInv
    OBVIOUS
  <2>19. CyclesInv' /\ JobsInv'
    BY ONLY <2>10, <2>11, <2>12, <2>13, <2>14, <2>15, <2>16, <2>17, <2>18, p \in Procs, NextMoves
  <2>20. QED
    BY <2>10, <2>19
<1>6. QED
  BY <1>4, <1>5

\* The intent of the attempt the process owns.
LEMMA MintIntentInductive ==
  ASSUME IInv, NEW p \in Procs, MintIntent(p)
  PROVE  IInv'
<1> USE DEF IInv
<1> DEFINE c == Target(p)
           a == job[p].attempt
           j == [job[p] EXCEPT !.pc = "mint_attach"]
<1>1. UNCHANGED <<now, sub, cycle, order, setup, setups, faults>> /\ queue' \subseteq Cycles
  BY DEF MintIntent, world, TypeOK
<1>2. job[p].pc = "mint_intent"
  BY DEF MintIntent, At
<1>3. /\ job[p].sub \in Subs /\ job[p].start \in Times /\ c \in Cycles
      /\ c = <<job[p].sub, job[p].start>> /\ a \in Attempts /\ a \in Nat
  BY <1>2, PlaceTyped DEF MintLabels
<1>4. CASE setup[job[p].sub] = "invalid"
  <2>1. UNCHANGED invoice /\ job' = [job EXCEPT ![p] = Failed(p)]
    BY <1>4 DEF MintIntent, Gives
  <2>2. Failed(p) \in Job /\ Placed(Failed(p)) /\ Fits(Failed(p)) /\ Failed(p).pc \notin Owning
    BY EndsTyped, NotDrafting DEF Drafting
  <2>3. QED
    BY <1>1, <2>1, <2>2, ReadInductive
<1>5. CASE setup[job[p].sub] # "invalid"
  <2>1. "mint_attach" \in Labels
    BY DEF Labels, MintLabels
  <2>2. /\ j \in Job /\ j.pc = "mint_attach" /\ j.sub = job[p].sub /\ j.start = job[p].start
        /\ j.attempt = a /\ job' = [job EXCEPT ![p] = j]
    BY <1>5, <2>1, JobGoes DEF MintIntent, Goto
  <2>3. Fits(job[p]) /\ Owns(job[p])
    BY DEF JobsInv
  <2>4. /\ a = cycle[c].attempts + 1 /\ LastSettled(c)
        /\ invoice[c][a].status # "none"
    BY <1>2, <1>3, <2>3 DEF Fits, Owns, Drafting, Owning
  <2>5. invoice' = [invoice EXCEPT ![c][a].intent = "created"]
    BY <1>5 DEF MintIntent
  <2>6. \A q \in Procs : q # p /\ job[q].pc \in Owning => Target(q) # c
    BY <1>2 DEF JobsInv, OneOwner, Owning
  <2> HIDE DEF j, a, c
  <2>7. /\ \A b \in Cycles, i \in Attempts :
             b # c \/ i # j.attempt => invoice'[b][i] = invoice[b][i]
        /\ invoice'[c][j.attempt].status = invoice[c][a].status
        /\ invoice' \in [Cycles -> [Attempts -> Invoice]]
    <3> DEFINE row == [status |-> invoice[c][a].status, intent |-> "created"]
    <3>1. /\ row \in Invoice /\ row.status = invoice[c][a].status
          /\ invoice' = [invoice EXCEPT ![c][a] = row]
      BY <1>3, <2>5, InvoiceFields
    <3> HIDE DEF row
    <3>2. /\ invoice' \in [Cycles -> [Attempts -> Invoice]]
          /\ \A b \in Cycles, i \in Attempts :
               invoice'[b][i] = IF b = c /\ i = a THEN row ELSE invoice[b][i]
      BY <1>3, <3>1, InvoiceWritten
    <3>3. QED
      BY <1>3, <2>2, <3>1, <3>2
  <2>8. TypeOK'
    BY <1>1, <2>2, <2>7 DEF TypeOK
  <2>9. Placed(j) /\ j.pc \in Owning
    BY <1>3, <2>2 DEF Placed, Owning, DueLabels, MintLabels
  <2>10. \A b \in Cycles, i \in Attempts :
           b # c \/ i # j.attempt => invoice'[b][i] = invoice[b][i]
    BY <2>7
  <2>11. invoice'[c][j.attempt].status # "none"
    BY <2>4, <2>7
  <2>12. c = <<j.sub, j.start>> /\ j.attempt \in Attempts /\ j.attempt = cycle[c].attempts + 1
    BY <1>3, <2>2, <2>4
  <2>13. UNCHANGED cycle /\ LastSettled(c)
    BY <1>1, <2>4
  <2>14. j \in Job /\ job' = [job EXCEPT ![p] = j] /\ c \in Cycles
    BY <1>3, <2>2
  <2>15. TypeOK /\ CyclesInv /\ JobsInv
    OBVIOUS
  <2>16. CyclesInv' /\ JobsInv'
    BY ONLY <2>6, <2>8, <2>9, <2>10, <2>11, <2>12, <2>13, <2>14, <2>15, p \in Procs, NextMoves
  <2>17. QED
    BY <2>8, <2>16
<1>6. QED
  BY <1>4, <1>5

\* The attempt is attached, and no process drafts the one after it yet.
LEMMA MintAttachInductive ==
  ASSUME IInv, NEW p \in Procs, MintAttach(p)
  PROVE  IInv'
<1> USE DEF IInv
<1> DEFINE c   == Target(p)
           a   == job[p].attempt
           row == [status |-> "invoiced", attempts |-> a, invoice |-> a]
<1>1. UNCHANGED <<now, sub, order, invoice, setup, queue, setups, faults>>
  BY DEF MintAttach, world
<1>2. job[p].pc = "mint_attach"
  BY DEF MintAttach, At
<1>3. /\ job[p].sub \in Subs /\ job[p].start \in Times /\ c \in Cycles
      /\ c = <<job[p].sub, job[p].start>> /\ a \in Attempts /\ a \in Nat
  BY <1>2, PlaceTyped DEF MintLabels
<1>4. Billed(p) \in Job /\ Placed(Billed(p)) /\ Billed(p).pc \notin Drafting
  BY <1>3, BilledTyped DEF Drafting
<1>5. cycle' = [cycle EXCEPT ![c] = row] /\ job' = [job EXCEPT ![p] = Billed(p)]
  BY DEF MintAttach, Gives
<1>6. row \in Cycle
  <2>1. a \in 0 .. MaxAttempts
    BY <1>3, Constants DEF Attempts
  <2> HIDE DEF a
  <2>2. QED
    BY <1>3, <2>1 DEF Cycle
<1>7. TypeOK'
  BY <1>1, <1>3, <1>4, <1>5, <1>6 DEF TypeOK
<1>8. /\ a = cycle[c].attempts + 1 /\ LastSettled(c) /\ invoice[c][a].status # "none"
      /\ cycle[c].attempts \in Nat
  <2>1. Fits(job[p]) /\ Owns(job[p])
    BY DEF JobsInv
  <2>2. QED
    BY <1>2, <1>3, <2>1, CycleTyped DEF Fits, Owns, Drafting, Owning
<1>9. \A q \in Procs : q # p /\ job[q].pc \in Owning => Target(q) # c
  BY <1>2 DEF JobsInv, OneOwner, Owning
<1>10. \A b \in Cycles : cycle'[b] = IF b = c THEN row ELSE cycle[b]
  BY <1>3, <1>5 DEF TypeOK
<1>11. \A q \in Procs : job'[q] = IF q = p THEN Billed(p) ELSE job[q]
  BY <1>5 DEF TypeOK
<1>12. row.status = "invoiced" /\ row.attempts = a /\ row.invoice = a /\ a # None
  BY <1>3, Constants
<1> HIDE DEF row, c
<1>13. ASSUME NEW b \in Cycles PROVE Numbered(b)' /\ NextOnlyAfterLast(b)'
  <2>1. CASE b # c
    BY <1>1, <1>10, <2>1 DEF CyclesInv, Numbered, NextOnlyAfterLast, LastSettled, Awaiting
  <2>2. CASE b = c
    <3>1. ASSUME NEW k \in Attempts
          PROVE  /\ invoice[c][k].status # "none" => k <= a
                 /\ k <= a => invoice[c][k].status # "none"
                 /\ k < a => ~Awaiting(c, k)
                 /\ k \in Nat
      <4>1. k \in Nat
        BY Constants
      <4>2. QED
        BY <1>3, <1>8, <4>1 DEF CyclesInv, Numbered, LastSettled
    <3>2. Numbered(b)'
      <4>1. a # 0
        BY <1>3, <1>8
      <4>2. ASSUME NEW k \in Attempts
            PROVE  /\ invoice'[b][k].status # "none" => k <= a + 1
                   /\ k <= a => invoice'[b][k].status # "none"
                   /\ k < a => ~Awaiting(b, k)'
        BY <1>1, <1>3, <2>2, <3>1 DEF Awaiting
      <4>3. cycle'[b] = row
        BY <1>10, <2>2
      <4>4. QED
        BY <1>12, <4>1, <4>2, <4>3 DEF Numbered
    <3>3. NextOnlyAfterLast(b)'
      BY <1>1, <1>3, <1>10, <1>12, <2>2, <3>1 DEF NextOnlyAfterLast
    <3>4. QED
      BY <3>2, <3>3
  <2>3. QED
    BY <2>1, <2>2
<1>14. ASSUME NEW q \in Procs, q # p
       PROVE  Placed(job[q]) /\ Fits(job[q])' /\ Owns(job[q])' /\ job'[q] = job[q]
  <2> DEFINE b == <<job[q].sub, job[q].start>>
  <2>1. /\ Placed(job[q]) /\ Fits(job[q]) /\ Owns(job[q]) /\ job'[q] = job[q]
        /\ job[q].attempt \in Nat
    BY <1>11, <1>14, PlaceTyped DEF JobsInv
  <2>2. job[q].pc \in Drafting => b \in Cycles
    BY <2>1 DEF Placed, Drafting, MintLabels, Cycles
  <2>3. Fits(job[q])'
    <3>1. CASE b # c
      BY <1>1, <1>10, <2>1, <2>2, <3>1 DEF Fits, LastSettled, Awaiting
    <3>2. CASE b = c
      BY <1>3, <1>8, <1>10, <1>12, <2>1, <2>2, <3>2 DEF Fits
    <3>3. QED
      BY <3>1, <3>2
  <2>4. job[q].pc \in Owning => b # c /\ b \in Cycles
    BY <1>9, <1>14, <2>2 DEF Target, Owning, Drafting
  <2>5. Owns(job[q])'
    BY <1>1, <1>10, <2>1, <2>4 DEF Owns
  <2>6. QED
    BY <2>1, <2>3, <2>5
<1>15. JobsInv'
  <2>1. ASSUME NEW q \in Procs PROVE Placed(job[q])' /\ Fits(job[q])' /\ Owns(job[q])'
    <3>1. CASE q = p
      BY <1>4, <1>11, <3>1 DEF Placed, Fits, Owns, Drafting, Owning
    <3>2. CASE q # p
      BY <1>11, <1>14, <3>2 DEF Placed, Fits, Owns
    <3>3. QED
      BY <3>1, <3>2
  <2>2. OneOwner'
    <3> SUFFICES ASSUME NEW q \in Procs, NEW r \in Procs, job'[q].pc \in Owning,
                        job'[r].pc \in Owning, Target(q)' = Target(r)'
                 PROVE  q = r
      BY DEF OneOwner
    <3>1. job'[q] = job[q] /\ job'[r] = job[r]
      BY <1>4, <1>11 DEF Owning, Drafting
    <3>2. Target(q) = Target(r)
      BY <3>1 DEF Target
    <3>3. QED
      BY <3>1, <3>2 DEF JobsInv, OneOwner
  <2>3. QED
    BY <2>1, <2>2 DEF JobsInv
<1>16. QED
  BY <1>7, <1>13, <1>15 DEF CyclesInv

-----------------------------------------------------------------------------
(* What happens to an invoice.                                              *)

\* The status of a cycle, as a row of its own.
LEMMA CycleFields ==
  ASSUME TypeOK, NEW c \in Cycles
  PROVE  /\ cycle = [cycle EXCEPT ![c] = cycle[c]]
         /\ \A s \in {"invoiced", "past_due", "paid"} :
              LET row == [status |-> s, attempts |-> cycle[c].attempts,
                          invoice |-> cycle[c].invoice] IN
              row \in Cycle /\ [cycle EXCEPT ![c].status = s] = [cycle EXCEPT ![c] = row]
<1>1. cycle \in [Cycles -> Cycle] /\ cycle[c] \in Cycle
  BY DEF TypeOK
<1>2. \A s : [cycle[c] EXCEPT !.status = s] =
             [status |-> s, attempts |-> cycle[c].attempts, invoice |-> cycle[c].invoice]
  BY <1>1 DEF Cycle
<1>3. \A s : [cycle EXCEPT ![c].status = s] = [cycle EXCEPT ![c] = [cycle[c] EXCEPT !.status = s]]
  BY <1>1
<1>4. QED
  BY <1>1, <1>2, <1>3 DEF Cycle

\* An invoice that is there stops being awaited, and its cycle follows: to past
\* due only when it is the last attempt.
LEMMA RowsMove ==
  ASSUME IInv, NEW c \in Cycles, NEW k \in Attempts,
         NEW row \in Invoice, invoice' = [invoice EXCEPT ![c][k] = row],
         invoice[c][k].status # "none", row.status # "none",
         row.status # "open" \/ row.intent # "created",
         NEW new \in Cycle, cycle' = [cycle EXCEPT ![c] = new],
         new.attempts = cycle[c].attempts, new.invoice = cycle[c].invoice,
         new.status = "past_due" => cycle[c].status = "past_due" \/ cycle[c].invoice = k,
         UNCHANGED <<now, sub, order, job, setup, queue, setups, faults>>
  PROVE  IInv'
<1> USE DEF IInv
<1>1. /\ invoice' \in [Cycles -> [Attempts -> Invoice]]
      /\ \A b \in Cycles, i \in Attempts :
           invoice'[b][i] = IF b = c /\ i = k THEN row ELSE invoice[b][i]
  BY InvoiceWritten
<1>2. \A b \in Cycles : cycle'[b] = IF b = c THEN new ELSE cycle[b]
  BY DEF TypeOK
<1>3. TypeOK'
  BY <1>1 DEF TypeOK
<1>4. \A b \in Cycles, i \in Attempts :
        /\ invoice'[b][i].status # "none" <=> invoice[b][i].status # "none"
        /\ Awaiting(b, i)' => Awaiting(b, i)
  BY <1>1 DEF Awaiting
<1>5. \A b \in Cycles : /\ cycle'[b].attempts = cycle[b].attempts
                        /\ cycle'[b].invoice = cycle[b].invoice
  BY <1>2
<1>6. \A b \in Cycles : cycle'[b].status = "past_due" =>
        cycle[b].status = "past_due" \/ (cycle[b].attempts # 0 /\ LastSettled(b)')
  <2> SUFFICES ASSUME cycle[c].invoice = k
               PROVE  cycle[c].attempts # 0 /\ LastSettled(c)'
    BY <1>2
  <2>1. cycle[c].attempts = k /\ cycle[c].attempts # 0
    BY Constants, CycleTyped DEF CyclesInv, Numbered
  <2>2. ~Awaiting(c, k)'
    BY <1>1 DEF Awaiting
  <2>3. QED
    BY <1>5, <2>1, <2>2 DEF LastSettled
<1>7. \A q \in Procs : \/ job'[q] = job[q]
                       \/ Placed(job'[q]) /\ Fits(job'[q]) /\ job'[q].pc \notin Owning
  OBVIOUS
<1>8. QED
  BY <1>3, <1>4, <1>5, <1>6, <1>7, Moves

LEMMA ExpireInductive ==
  ASSUME IInv, NEW c \in Cycles, NEW k \in Attempts, Expire(c, k)
  PROVE  IInv'
<1> DEFINE row  == [status |-> "expired", intent |-> invoice[c][k].intent]
           past == cycle[c].invoice = k /\ cycle[c].status # "paid"
           late == [status |-> "past_due", attempts |-> cycle[c].attempts,
                    invoice |-> cycle[c].invoice]
           new  == IF past THEN late ELSE cycle[c]
<1>1. row \in Invoice /\ invoice' = [invoice EXCEPT ![c][k] = row]
  BY InvoiceFields DEF Expire, IInv
<1>2. new \in Cycle /\ cycle' = [cycle EXCEPT ![c] = new]
  BY CycleFields, CycleTyped DEF Expire, IInv
<1>3. /\ new.attempts = cycle[c].attempts /\ new.invoice = cycle[c].invoice
      /\ new.status = "past_due" => cycle[c].status = "past_due" \/ cycle[c].invoice = k
  OBVIOUS
<1>4. /\ invoice[c][k].status # "none" /\ row.status # "none"
      /\ row.status # "open" \/ row.intent # "created"
  BY DEF Expire
<1>5. UNCHANGED <<now, sub, order, job, setup, queue, setups, faults>>
  BY DEF Expire, world
<1> HIDE DEF row, new
<1>6. QED
  BY <1>1, <1>2, <1>3, <1>4, <1>5, RowsMove

LEMMA SubmitInductive ==
  ASSUME IInv, NEW c \in Cycles, NEW k \in Attempts, Submit(c, k)
  PROVE  IInv'
<1> DEFINE row == [status |-> "open", intent |-> "submitted"]
           asked == [status |-> "invoiced", attempts |-> cycle[c].attempts,
                     invoice |-> cycle[c].invoice]
           new == IF cycle[c].invoice = k /\ cycle[c].status = "past_due"
                    THEN asked ELSE cycle[c]
<1>1. row \in Invoice /\ invoice' = [invoice EXCEPT ![c][k] = row]
  BY DEF Submit, Invoice
<1>2. new \in Cycle /\ cycle' = [cycle EXCEPT ![c] = new]
  BY CycleFields, CycleTyped DEF Submit, IInv
<1>3. /\ new.attempts = cycle[c].attempts /\ new.invoice = cycle[c].invoice
      /\ new.status = "past_due" => cycle[c].status = "past_due" \/ cycle[c].invoice = k
  OBVIOUS
<1>4. /\ invoice[c][k].status # "none" /\ row.status # "none"
      /\ row.status # "open" \/ row.intent # "created"
  BY DEF Submit
<1>5. UNCHANGED <<now, sub, order, job, setup, queue, setups, faults>>
  BY DEF Submit, world
<1> HIDE DEF row, new
<1>6. QED
  BY <1>1, <1>2, <1>3, <1>4, <1>5, RowsMove

LEMMA PayInductive ==
  ASSUME IInv, NEW c \in Cycles, NEW k \in Attempts, Pay(c, k)
  PROVE  IInv'
<1> DEFINE row == [status |-> "paid", intent |-> invoice[c][k].intent]
           new == [status |-> "paid", attempts |-> cycle[c].attempts,
                   invoice |-> cycle[c].invoice]
<1>1. row \in Invoice /\ invoice' = [invoice EXCEPT ![c][k] = row]
  BY InvoiceFields DEF Pay, IInv
<1>2. new \in Cycle /\ cycle' = [cycle EXCEPT ![c] = new]
  BY CycleFields DEF Pay, IInv
<1>3. /\ new.attempts = cycle[c].attempts /\ new.invoice = cycle[c].invoice
      /\ new.status = "past_due" => cycle[c].status = "past_due" \/ cycle[c].invoice = k
  OBVIOUS
<1>4. /\ invoice[c][k].status # "none" /\ row.status # "none"
      /\ row.status # "open" \/ row.intent # "created"
  BY DEF Pay
<1>5. UNCHANGED <<now, sub, order, job, setup, queue, setups, faults>>
  BY DEF Pay, world
<1> HIDE DEF row, new
<1>6. QED
  BY <1>1, <1>2, <1>3, <1>4, <1>5, RowsMove

-----------------------------------------------------------------------------
(* The biller's tick.                                                       *)

\* What is due can be billed by its time.
LEMMA BillerScanInductive ==
  ASSUME IInv, BillerScan
  PROVE  IInv'
<1> USE DEF IInv
<1> DEFINE one == [job[Biller] EXCEPT !.pc = "due_next"]
           two == [one EXCEPT !.due = TRUE]
           j   == [two EXCEPT !.now = now]
<1>1. /\ UNCHANGED <<now, sub, cycle, order, invoice, setup, setups, faults>>
      /\ Biller \in Procs /\ job[Biller] \in Job /\ now \in Times /\ now \in Nat
  BY Constants DEF BillerScan, rows, world, TypeOK
<1>2. job' = [job EXCEPT ![Biller] = j]
  BY <1>1 DEF BillerScan, TypeOK
<1>3. one \in Job /\ one.pc = "due_next"
  BY <1>1 DEF Job, Labels
<1> HIDE DEF one
<1>4. two \in Job /\ two.pc = "due_next"
  BY <1>3 DEF Job
<1> HIDE DEF two
<1>5. j \in Job /\ j.pc = "due_next"
  BY <1>1, <1>4 DEF Job
<1> HIDE DEF j
<1>6. \A s \in Due : s \in Subs /\ sub[s].next \in Times
  <2> SUFFICES ASSUME NEW s \in Due PROVE s \in Subs /\ sub[s].next \in Times
    OBVIOUS
  <2>1. s \in Subs /\ sub[s].next # None /\ sub[s].next <= now
    BY DEF Due
  <2>2. sub[s].next \in Nat \cup {None}
    BY <2>1 DEF TypeOK, Sub
  <2>3. QED
    BY <1>1, <2>1, <2>2, Constants DEF Times
<1>7. queue' \subseteq Cycles
  <2> DEFINE chosen == {s \in Due : Cardinality({r \in Due : Before(r, s)}) < ScanBatch}
  <2>1. chosen \subseteq Due /\ queue' = {<<s, sub[s].next>> : s \in chosen}
    BY DEF BillerScan
  <2> HIDE DEF chosen
  <2>2. QED
    BY <1>6, <2>1 DEF Cycles
<1>8. Placed(j) /\ Fits(j) /\ j.pc \notin Owning
  BY <1>5, NotDrafting DEF Placed, Drafting, DueLabels, MintLabels
<1>9. QED
  BY <1>1, <1>2, <1>5, <1>7, <1>8, ReadInductive

\* The biller goes to a place where it drafts nothing, with a cycle it was given.
LEMMA BillerGoes ==
  ASSUME TypeOK, NEW pc \in {"due_read", "mint_cycle"}, NEW c \in Cycles, NEW start,
         start = IF pc = "mint_cycle" THEN c[2] ELSE job[Biller].start
  PROVE  LET one == [job[Biller] EXCEPT !.pc = pc]
             two == [one EXCEPT !.sub = c[1]]
             j   == [two EXCEPT !.start = start]
         IN  j \in Job /\ Placed(j) /\ Fits(j) /\ j.pc \notin Owning
<1> DEFINE one == [job[Biller] EXCEPT !.pc = pc]
           two == [one EXCEPT !.sub = c[1]]
           j   == [two EXCEPT !.start = start]
<1>1. c[1] \in Subs /\ c[2] \in Times
  BY DEF Cycles
<1>2. job[Biller] \in Job
  BY Constants DEF TypeOK
<1>3. start \in Times \cup {None} /\ (pc = "mint_cycle" => start \in Times)
  BY <1>1, <1>2 DEF Job
<1>4. one \in Job /\ one.pc = pc
  BY <1>2 DEF Job, Labels, DueLabels, MintLabels
<1> HIDE DEF one
<1>5. two \in Job /\ two.pc = pc /\ two.sub = c[1]
  BY <1>1, <1>4 DEF Job
<1> HIDE DEF two
<1>6. j \in Job /\ j.pc = pc /\ j.sub = c[1] /\ j.start = start
  BY <1>3, <1>5 DEF Job
<1> HIDE DEF j
<1>7. Placed(j) /\ Fits(j) /\ j.pc \notin Owning
  BY <1>1, <1>3, <1>6, NotDrafting DEF Placed, Drafting, DueLabels, MintLabels
<1>8. QED
  BY <1>6, <1>7 DEF j, two, one

LEMMA BillerDueNextInductive ==
  ASSUME IInv, BillerDueNext
  PROVE  IInv'
<1> USE DEF IInv
<1>1. /\ UNCHANGED <<now, sub, cycle, order, invoice, setup, setups, faults>>
      /\ Biller \in Procs /\ queue \subseteq Cycles /\ job[Biller] \in Job
  BY Constants DEF BillerDueNext, rows, world, TypeOK
<1>2. ASSUME NEW c \in queue, queue' = queue \ {c},
             job' = [job EXCEPT ![Biller].pc = "due_read", ![Biller].sub = c[1]]
      PROVE  IInv'
  <2> DEFINE start == job[Biller].start
             one == [job[Biller] EXCEPT !.pc = "due_read"]
             two == [one EXCEPT !.sub = c[1]]
             j   == [two EXCEPT !.start = start]
  <2>1. job' = [job EXCEPT ![Biller] = j]
    BY <1>1, <1>2 DEF TypeOK, Job
  <2>2. j \in Job /\ Placed(j) /\ Fits(j) /\ j.pc \notin Owning
    BY <1>1, BillerGoes
  <2> HIDE DEF j
  <2>3. QED
    BY <1>1, <1>2, <2>1, <2>2, ReadInductive
<1>3. ASSUME queue' = queue,
             job' = [job EXCEPT ![Biller] = [Idle EXCEPT !.pc = "orphan_scan", !.now = job[Biller].now]]
      PROVE  IInv'
  <2> DEFINE one == [Idle EXCEPT !.pc = "orphan_scan"]
             j   == [one EXCEPT !.now = job[Biller].now]
  <2>1. one \in Job /\ one.pc = "orphan_scan"
    BY IdleTyped DEF Job, Labels
  <2>2. job' = [job EXCEPT ![Biller] = j]
    BY <1>3
  <2> HIDE DEF one
  <2>3. j \in Job /\ j.pc = "orphan_scan"
    BY <1>1, <2>1 DEF Job
  <2> HIDE DEF j
  <2>4. Placed(j) /\ Fits(j) /\ j.pc \notin Owning
    BY <2>3, NotDrafting DEF Placed, Drafting, DueLabels, MintLabels
  <2>5. QED
    BY <1>1, <1>3, <2>2, <2>3, <2>4, ReadInductive
<1>4. QED
  BY <1>2, <1>3 DEF BillerDueNext, Gives

LEMMA BillerOrphanScanInductive ==
  ASSUME IInv, BillerOrphanScan
  PROVE  IInv'
<1> USE DEF IInv
<1> DEFINE j == [job[Biller] EXCEPT !.pc = "orphan_next"]
<1>1. /\ UNCHANGED <<now, sub, cycle, order, invoice, setup, setups, faults>>
      /\ Biller \in Procs
  BY Constants DEF BillerOrphanScan, rows, world
<1>2. "orphan_next" \in Labels
  BY DEF Labels
<1>3. j \in Job /\ j.pc = "orphan_next" /\ job' = [job EXCEPT ![Biller] = j]
  BY <1>1, <1>2, JobGoes DEF BillerOrphanScan, Goto
<1> HIDE DEF j
<1>4. queue' \subseteq Cycles
  <2>1. \A i \in Orphans : order[i] \in Cycles
    BY DEF Orphans, TypeOK
  <2>2. QED
    BY <2>1 DEF BillerOrphanScan
<1>5. Placed(j) /\ Fits(j) /\ j.pc \notin Owning
  BY <1>3, NotDrafting DEF Placed, Drafting, DueLabels, MintLabels
<1>6. QED
  BY <1>1, <1>3, <1>4, <1>5, ReadInductive

LEMMA BillerOrphanNextInductive ==
  ASSUME IInv, BillerOrphanNext
  PROVE  IInv'
<1> USE DEF IInv
<1>1. /\ UNCHANGED <<now, sub, cycle, order, invoice, setup, setups, faults>>
      /\ Biller \in Procs /\ queue \subseteq Cycles /\ job[Biller] \in Job
  BY Constants DEF BillerOrphanNext, rows, world, TypeOK
<1>2. ASSUME NEW c \in queue, queue' = queue \ {c},
             job' = [job EXCEPT ![Biller].pc = "mint_cycle", ![Biller].sub = c[1],
                                ![Biller].start = c[2]]
      PROVE  IInv'
  <2> DEFINE one == [job[Biller] EXCEPT !.pc = "mint_cycle"]
             two == [one EXCEPT !.sub = c[1]]
             j   == [two EXCEPT !.start = c[2]]
  <2>1. job' = [job EXCEPT ![Biller] = j]
    BY <1>1, <1>2 DEF TypeOK
  <2>2. j \in Job /\ Placed(j) /\ Fits(j) /\ j.pc \notin Owning
    BY <1>1, BillerGoes
  <2> HIDE DEF j
  <2>3. QED
    BY <1>1, <1>2, <2>1, <2>2, ReadInductive
<1>3. ASSUME queue' = queue, job' = [job EXCEPT ![Biller] = Idle]
      PROVE  IInv'
  <2>1. Idle \in Job /\ Placed(Idle) /\ Fits(Idle) /\ Idle.pc \notin Owning
    BY IdleTyped, NotDrafting
  <2>2. QED
    BY <1>1, <1>3, <2>1, ReadInductive
<1>4. QED
  BY <1>2, <1>3 DEF BillerOrphanNext, Gives

-----------------------------------------------------------------------------
(* The requests.                                                            *)

\* A change of a subscription's row, by a process that drafts nothing after it.
LEMMA SubWritten ==
  ASSUME IInv, NEW p \in Procs, NEW j \in Job, job' = [job EXCEPT ![p] = j],
         sub' \in [Subs -> Sub],
         UNCHANGED <<now, cycle, order, invoice, setup, queue, setups, faults>>,
         Placed(j), j.pc \notin Drafting
  PROVE  IInv'
<1> USE DEF IInv
<1>1. TypeOK'
  BY DEF TypeOK
<1>2. Fits(j) /\ j.pc \notin Owning
  BY NotDrafting
<1>3. UNCHANGED <<cycle, invoice>>
  OBVIOUS
<1>4. QED
  BY <1>1, <1>2, <1>3, JobMoves

LEMMA CreateInductive ==
  ASSUME IInv, NEW p \in Creators, NEW s \in Subs, NEW start \in Times, Create(p, s, start)
  PROVE  IInv'
<1> USE DEF IInv
<1>1. /\ UNCHANGED <<now, cycle, order, invoice, setup, queue, setups, faults>>
      /\ p \in Procs /\ job[p] \in Job /\ now \in Times
  BY Constants DEF Create, world, TypeOK
<1>2. sub' \in [Subs -> Sub]
  <2>1. [status |-> "active", next |-> start] \in Sub
    BY Constants DEF Sub
  <2>2. QED
    BY <2>1 DEF Create, TypeOK
<1>3. CASE job' = [job EXCEPT ![p] = Rest(p)]
  <2>1. Rest(p) \in Job /\ Placed(Rest(p)) /\ Rest(p).pc \notin Drafting
    BY <1>1, EndsTyped DEF Drafting
  <2>2. QED
    BY <1>1, <1>2, <1>3, <2>1, SubWritten
<1>4. CASE job' = [job EXCEPT ![p].pc = "due_read", ![p].sub = s, ![p].now = now]
  <2> DEFINE one == [job[p] EXCEPT !.pc = "due_read"]
             two == [one EXCEPT !.sub = s]
             j   == [two EXCEPT !.now = now]
  <2>1. job' = [job EXCEPT ![p] = j]
    BY <1>1, <1>4 DEF TypeOK
  <2>2. one \in Job /\ one.pc = "due_read"
    BY <1>1 DEF Job, Labels, DueLabels
  <2> HIDE DEF one
  <2>3. two \in Job /\ two.pc = "due_read" /\ two.sub = s
    BY <2>2 DEF Job
  <2> HIDE DEF two
  <2>4. j \in Job /\ j.pc = "due_read" /\ j.sub = s
    BY <1>1, <2>3 DEF Job
  <2> HIDE DEF j
  <2>5. Placed(j) /\ j.pc \notin Drafting
    BY <2>4 DEF Placed, Drafting, DueLabels, MintLabels
  <2>6. QED
    BY <1>1, <1>2, <2>1, <2>4, <2>5, SubWritten
<1>5. QED
  BY <1>3, <1>4 DEF Create, Gives

LEMMA RetryInductive ==
  ASSUME IInv, NEW p \in Retriers, NEW c \in Cycles, Retry(p, c)
  PROVE  IInv'
<1> USE DEF IInv
<1> DEFINE one   == [job[p] EXCEPT !.pc = "mint_cycle"]
           two   == [one EXCEPT !.sub = c[1]]
           three == [two EXCEPT !.start = c[2]]
           j     == [three EXCEPT !.retry = TRUE]
<1>1. /\ UNCHANGED <<now, sub, cycle, order, invoice, setup, setups, faults>>
      /\ p \in Procs /\ queue' \subseteq Cycles /\ job[p] \in Job
      /\ c[1] \in Subs /\ c[2] \in Times
  BY Constants DEF Retry, rows, world, TypeOK, Cycles
<1>2. job' = [job EXCEPT ![p] = j]
  BY <1>1 DEF Retry, TypeOK
<1>3. one \in Job /\ one.pc = "mint_cycle"
  BY <1>1 DEF Job, Labels, MintLabels
<1> HIDE DEF one
<1>4. two \in Job /\ two.pc = "mint_cycle" /\ two.sub = c[1]
  BY <1>1, <1>3 DEF Job
<1> HIDE DEF two
<1>5. three \in Job /\ three.pc = "mint_cycle" /\ three.sub = c[1] /\ three.start = c[2]
  BY <1>1, <1>4 DEF Job
<1> HIDE DEF three
<1>6. j \in Job /\ j.pc = "mint_cycle" /\ j.sub = c[1] /\ j.start = c[2]
  BY <1>5 DEF Job
<1> HIDE DEF j
<1>7. Placed(j) /\ Fits(j) /\ j.pc \notin Owning
  BY <1>1, <1>6, NotDrafting DEF Placed, Drafting, DueLabels, MintLabels
<1>8. QED
  BY <1>1, <1>2, <1>6, <1>7, ReadInductive

LEMMA ChangeReadInductive ==
  ASSUME IInv, NEW p \in Changers, NEW s \in Subs, NEW change \in Changes,
         ChangeRead(p, s, change)
  PROVE  IInv'
<1> USE DEF IInv
<1> DEFINE unset == (sub[s].next = None)
           one   == [job[p] EXCEPT !.pc = "change"]
           two   == [one EXCEPT !.sub = s]
           three == [two EXCEPT !.change = change]
           j     == [three EXCEPT !.reset = unset]
<1>1. /\ UNCHANGED <<now, sub, cycle, order, invoice, setup, setups, faults>>
      /\ p \in Procs /\ queue' \subseteq Cycles /\ job[p] \in Job
  BY Constants DEF ChangeRead, rows, world, TypeOK
<1>2. job' = [job EXCEPT ![p] = j]
  BY <1>1, Zenon DEF ChangeRead, TypeOK
<1>3. one \in Job /\ one.pc = "change"
  BY <1>1 DEF Job, Labels
<1> HIDE DEF one
<1>4. two \in Job /\ two.pc = "change" /\ two.sub = s
  BY <1>3 DEF Job
<1> HIDE DEF two
<1>5. three \in Job /\ three.pc = "change" /\ three.sub = s
  BY <1>4 DEF Job
<1>6. unset \in BOOLEAN
  OBVIOUS
<1> HIDE DEF three, unset
<1>7. j \in Job /\ j.pc = "change" /\ j.sub = s
  BY <1>5, <1>6 DEF Job
<1> HIDE DEF j
<1>8. Placed(j) /\ Fits(j) /\ j.pc \notin Owning
  BY <1>7, NotDrafting DEF Placed, Drafting, DueLabels, MintLabels
<1>9. QED
  BY <1>1, <1>2, <1>7, <1>8, ReadInductive

LEMMA ChangeWriteInductive ==
  ASSUME IInv, NEW p \in Changers, ChangeWrite(p)
  PROVE  IInv'
<1> USE DEF IInv
<1> DEFINE s == job[p].sub
<1>1. /\ UNCHANGED <<now, cycle, order, invoice, setup, queue, setups, faults>>
      /\ p \in Procs /\ job[p] \in Job /\ job[p].pc = "change" /\ now \in Nat
  BY Constants DEF ChangeWrite, world, TypeOK, At
<1>2. s \in Subs /\ sub[s] \in Sub /\ sub \in [Subs -> Sub]
  BY <1>1, PlaceTyped DEF TypeOK
<1>3. sub' \in [Subs -> Sub]
  <2>1. job[p].change \in Changes
    BY <1>1 DEF Job
  <2>2. CASE job[p].change = "pause"
    <3>1. sub' = [sub EXCEPT ![s].status = "paused"]
      BY <2>2 DEF ChangeWrite
    <3> HIDE DEF s
    <3>2. QED
      BY <1>2, <3>1 DEF Sub
  <2>3. CASE job[p].change = "cancel"
    <3>1. sub' = [sub EXCEPT ![s] = [status |-> "cancelled", next |-> None]]
      BY <2>3 DEF ChangeWrite
    <3> HIDE DEF s
    <3>2. QED
      BY <1>2, <3>1 DEF Sub
  <2>4. CASE job[p].change = "resume"
    <3> DEFINE next == IF job[p].reset THEN now ELSE sub[s].next
               one  == [sub[s] EXCEPT !.status = "active"]
               row  == [one EXCEPT !.next = next]
    <3>1. sub' = [sub EXCEPT ![s] = row]
      BY <1>2, <2>4 DEF ChangeWrite
    <3>2. next \in Nat \cup {None}
      BY <1>1, <1>2 DEF Sub
    <3> HIDE DEF next, s
    <3>3. row \in Sub
      BY <1>2, <3>2 DEF Sub
    <3> HIDE DEF row
    <3>4. QED
      BY <1>2, <3>1, <3>3
  <2>5. QED
    BY <2>1, <2>2, <2>3, <2>4 DEF Changes
<1>4. job' = [job EXCEPT ![p] = Rest(p)]
  BY DEF ChangeWrite, Gives
<1>5. Rest(p) \in Job /\ Placed(Rest(p)) /\ Rest(p).pc \notin Drafting
  BY <1>1, EndsTyped DEF Drafting
<1>6. QED
  BY <1>1, <1>3, <1>4, <1>5, SubWritten

-----------------------------------------------------------------------------
(* Time, set-ups and failures.                                              *)

\* Every process stays where it was or stops.
LEMMA StopsInductive ==
  ASSUME IInv, TypeOK', UNCHANGED <<cycle, invoice>>,
         \A q \in Procs : job'[q] = job[q] \/ job'[q] = Idle \/ job'[q] = Rest(q)
  PROVE  IInv'
<1> USE DEF IInv
<1>1. \A q \in Procs : /\ Placed(Idle) /\ Fits(Idle) /\ Idle.pc \notin Owning
                       /\ Placed(Rest(q)) /\ Fits(Rest(q)) /\ Rest(q).pc \notin Owning
  BY IdleTyped, EndsTyped, NotDrafting DEF Drafting
<1>2. \A q \in Procs : \/ job'[q] = job[q]
                       \/ Placed(job'[q]) /\ Fits(job'[q]) /\ job'[q].pc \notin Owning
  BY <1>1
<1>3. \A b \in Cycles, i \in Attempts :
        /\ invoice'[b][i].status # "none" <=> invoice[b][i].status # "none"
        /\ Awaiting(b, i)' => Awaiting(b, i)
  BY DEF Awaiting
<1>4. \A b \in Cycles : /\ cycle'[b].attempts = cycle[b].attempts
                        /\ cycle'[b].invoice = cycle[b].invoice
  OBVIOUS
<1>5. \A b \in Cycles : cycle'[b].status = "past_due" =>
        cycle[b].status = "past_due" \/ (cycle[b].attempts # 0 /\ LastSettled(b)')
  OBVIOUS
<1>6. QED
  BY <1>2, <1>3, <1>4, <1>5, Moves

LEMMA TimeInductive ==
  ASSUME IInv, TimePasses \/ \E s \in Subs, new \in Setups : SetupChanges(s, new)
  PROVE  IInv'
<1> USE DEF IInv
<1>1. UNCHANGED <<cycle, invoice>> /\ job' = job
  BY DEF TimePasses, SetupChanges, rows
<1>2. TypeOK'
  <2>1. now' \in Times
    <3>1. now \in Times
      BY DEF TypeOK
    <3>2. now' = now \/ (now < MaxTime /\ now' = now + 1)
      BY DEF TimePasses, SetupChanges
    <3>3. QED
      BY <3>1, <3>2, Constants DEF Times
  <2>2. setups' \in 0 .. MaxSetups
    <3>1. setups \in 0 .. MaxSetups
      BY DEF TypeOK
    <3>2. setups' = setups \/ (setups < MaxSetups /\ setups' = setups + 1)
      BY DEF TimePasses, SetupChanges
    <3>3. QED
      BY <3>1, <3>2, Constants
  <2>3. setup' \in [Subs -> Setups]
    BY DEF TimePasses, SetupChanges, TypeOK
  <2>4. UNCHANGED <<sub, cycle, order, invoice, job, queue, faults>>
    BY DEF TimePasses, SetupChanges, rows
  <2>5. QED
    BY <2>1, <2>2, <2>3, <2>4 DEF TypeOK
<1>3. QED
  BY <1>1, <1>2, StopsInductive

LEMMA FailureInductive ==
  ASSUME IInv, Crash \/ \E p \in Procs : StatementFails(p)
  PROVE  IInv'
<1> USE DEF IInv
<1>1. UNCHANGED <<now, sub, cycle, order, invoice, setup, setups>>
  BY DEF Crash, StatementFails, rows
<1>2. faults' \in 0 .. MaxFaults
  <2>1. faults \in 0 .. MaxFaults
    BY DEF TypeOK
  <2>2. faults < MaxFaults /\ faults' = faults + 1
    BY DEF Crash, StatementFails
  <2>3. QED
    BY <2>1, <2>2, Constants
<1>3. CASE Crash
  <2>1. job' = [p \in Procs |-> IF p = Biller \/ At(p, "idle") THEN Idle ELSE Rest(p)]
        /\ queue' = {}
    BY <1>3 DEF Crash
  <2>2. \A q \in Procs : job'[q] = Idle \/ job'[q] = Rest(q)
    BY <2>1
  <2>3. TypeOK'
    BY <1>1, <1>2, <2>1, IdleTyped, EndsTyped DEF TypeOK
  <2>4. QED
    BY <1>1, <2>2, <2>3, StopsInductive
<1>4. ASSUME NEW p \in Procs, StatementFails(p) PROVE IInv'
  <2> PICK j \in {Idle, Failed(p)} : job' = [job EXCEPT ![p] = j]
    BY <1>4 DEF StatementFails, Gives
  <2>1. queue' = queue
    BY <1>4 DEF StatementFails
  <2>2. j \in Job /\ Placed(j) /\ j.pc \notin Drafting
    BY IdleTyped, EndsTyped DEF Drafting
  <2>3. TypeOK'
    BY <1>1, <1>2, <2>1, <2>2 DEF TypeOK
  <2>4. Fits(j) /\ j.pc \notin Owning
    BY <2>2, NotDrafting
  <2>5. UNCHANGED <<cycle, invoice>>
    BY <1>1
  <2>6. QED
    BY <2>2, <2>3, <2>4, <2>5, JobMoves
<1>5. QED
  BY <1>3, <1>4

-----------------------------------------------------------------------------
(* The invariant and what it gives.                                         *)

LEMMA NextInductive == IInv /\ [Next]_vars => IInv'
<1> SUFFICES ASSUME IInv, [Next]_vars PROVE IInv'
  OBVIOUS
<1>1. ASSUME NEW p \in Procs, Generate(p) PROVE IInv'
  BY <1>1, DueReadInductive, DueInsertInductive, DueAdvanceInductive, MintCycleInductive,
     MintCheckInductive, MintInsertInductive, MintIntentInductive, MintAttachInductive
  DEF Generate
<1>2. CASE BillerTick
  BY <1>2, BillerScanInductive, BillerDueNextInductive, BillerOrphanScanInductive,
     BillerOrphanNextInductive
  DEF BillerTick
<1>3. ASSUME NEW p \in Creators, NEW s \in Subs, NEW t \in Times, Create(p, s, t) PROVE IInv'
  BY <1>3, CreateInductive
<1>4. ASSUME NEW p \in Retriers, NEW c \in Cycles, Retry(p, c) PROVE IInv'
  BY <1>4, RetryInductive
<1>5. ASSUME NEW p \in Changers,
             ChangeWrite(p) \/ \E s \in Subs, change \in Changes : ChangeRead(p, s, change)
      PROVE  IInv'
  BY <1>5, ChangeReadInductive, ChangeWriteInductive
<1>6. ASSUME NEW c \in Cycles, NEW k \in Attempts, Expire(c, k) \/ Submit(c, k) \/ Pay(c, k)
      PROVE  IInv'
  BY <1>6, ExpireInductive, SubmitInductive, PayInductive
<1>7. CASE TimePasses \/ \E s \in Subs, new \in Setups : SetupChanges(s, new)
  BY <1>7, TimeInductive
<1>8. CASE Crash \/ \E p \in Procs : StatementFails(p)
  BY <1>8, FailureInductive
<1>9. CASE UNCHANGED vars
  <2>1. TypeOK'
    BY <1>9 DEF vars, IInv, TypeOK
  <2>2. UNCHANGED <<cycle, invoice>> /\ job' = job
    BY <1>9 DEF vars
  <2>3. QED
    BY <2>1, <2>2, StopsInductive
<1>10. QED
  BY <1>1, <1>2, <1>3, <1>4, <1>5, <1>6, <1>7, <1>8, <1>9 DEF Next

\* The inductive invariant holds in every state.
THEOREM Invariance == Spec => []IInv
<1>1. Init => IInv
  BY InitInductive
<1>2. IInv /\ [Next]_vars => IInv'
  BY NextInductive
<1>3. QED
  BY <1>1, <1>2, PTL DEF Spec

\* Every variable keeps its type, whatever is started, fails or is restarted: the
\* biller's scans yield cycles there are, and no count passes its bound.
THEOREM TypeCorrect == Spec => []TypeOK
<1>1. IInv => TypeOK
  BY DEF IInv
<1>2. QED
  BY <1>1, Invariance, PTL

\* Of a cycle's invoices at most one waits for a payment nobody has submitted.
THEOREM OneAwaiting == Spec => []OneAwaitingInvoice
<1>1. IInv => OneAwaitingInvoice
  <2> SUFFICES ASSUME IInv, NEW c \in Cycles
               PROVE  Cardinality({k \in Attempts : Awaiting(c, k)}) <= 1
    BY DEF OneAwaitingInvoice, Awaiting
  <2> DEFINE waiting == {k \in Attempts : Awaiting(c, k)}
  <2>1. \A j, k \in waiting : j = k
    <3> SUFFICES ASSUME NEW j \in waiting, NEW k \in waiting PROVE j = k
      OBVIOUS
    <3>1. /\ j \in Nat /\ k \in Nat /\ cycle[c].attempts \in Nat
          /\ j \in Attempts /\ k \in Attempts
      BY CycleTyped DEF IInv
    <3>2. ASSUME NEW i \in waiting
          PROVE  /\ i <= cycle[c].attempts + 1 /\ i >= cycle[c].attempts
                 /\ i = cycle[c].attempts + 1 => LastSettled(c)
      <4>1. i \in Nat /\ cycle[c].attempts \in Nat /\ i \in Attempts /\ Awaiting(c, i)
        BY CycleTyped DEF IInv
      <4>2. Numbered(c) /\ NextOnlyAfterLast(c) /\ invoice[c][i].status # "none"
        BY <4>1 DEF IInv, CyclesInv, Awaiting
      <4>3. i <= cycle[c].attempts + 1 /\ ~(i < cycle[c].attempts)
        BY <4>1, <4>2 DEF Numbered
      <4>4. i = cycle[c].attempts + 1 => LastSettled(c)
        BY <4>1, <4>2 DEF NextOnlyAfterLast
      <4>5. QED
        BY <4>1, <4>3, <4>4
    <3>3. \A i \in waiting : i = cycle[c].attempts => ~LastSettled(c)
      BY DEF LastSettled
    <3>4. QED
      BY <3>1, <3>2, <3>3
  <2> HIDE DEF waiting
  <2>2. Cardinality(waiting) <= 1
    <3>1. CASE waiting = {}
      BY <3>1, FS_EmptySet
    <3>2. CASE waiting # {}
      <4> PICK k \in waiting : TRUE
        BY <3>2
      <4>1. waiting = {k}
        BY <2>1
      <4>2. Cardinality({k}) = 1
        BY FS_Singleton
      <4>3. QED
        BY <4>1, <4>2
    <3>3. QED
      BY <3>1, <3>2
  <2>3. QED
    BY <2>2 DEF waiting
<1>2. QED
  BY <1>1, Invariance, PTL

\* A cycle that is paid while nobody is past the check of a mint for it stays so.
\* The check turns every new mint away, so nobody reaches the one statement that
\* does not ask what the cycle has become, the one that attaches an invoice.
THEOREM PaidStaysPaid == Spec => PaidForGood
<1>1. IInv /\ [Next]_vars => \A c \in Cycles : Settled(c) => Settled(c)'
  <2> SUFFICES ASSUME IInv, [Next]_vars, NEW c \in Cycles, Settled(c)
               PROVE  Settled(c)'
    OBVIOUS
  <2>1. /\ cycle[c].status = "paid" /\ \A q \in Procs : ~Minting(q, c)
        /\ cycle \in [Cycles -> Cycle] /\ job \in [Procs -> Job]
    BY DEF Settled, IInv, TypeOK
  <2>2. ASSUME cycle'[c].status = "paid",
               \A q \in Procs : \/ job'[q] = job[q]
                                \/ job'[q].pc \notin MintLabels \ {"mint_cycle"}
                                \/ Target(q)' # c
        PROVE  Settled(c)'
    BY <2>1, <2>2 DEF Settled, Minting, Target
  <2>3. ASSUME NEW p \in Procs, Generate(p) PROVE Settled(c)'
    <3>1. /\ job[p] \in Job
          /\ Failed(p).pc \notin MintLabels /\ Billed(p).pc \notin MintLabels
      <4>1. Failed(p).pc \notin MintLabels
        BY EndsTyped DEF IInv, MintLabels
      <4>2. Billed(p) = Failed(p) \/ Billed(p).pc = "due_read"
        BY IdleTyped DEF Billed, Job
      <4>3. QED
        BY <2>1, <4>1, <4>2 DEF MintLabels
    <3>2. CASE DueRead(p) \/ DueCycle(p) \/ DueInsert(p) \/ DueAdvance(p)
      <4>1. cycle'[c].status = "paid"
        BY <2>1, <3>2 DEF DueRead, DueCycle, DueInsert, DueAdvance, rows
      <4>2. /\ \A q \in Procs : q # p => job'[q] = job[q]
            /\ job'[p].pc \notin MintLabels \ {"mint_cycle"}
        BY <2>1, <3>1, <3>2
        DEF DueRead, DueCycle, DueInsert, DueAdvance, Gives, Goto, MintLabels, Job
      <4>3. QED
        BY <2>2, <4>1, <4>2
    <3>3. CASE MintCycle(p)
      <4>1. cycle' = cycle
        BY <3>3 DEF MintCycle, rows
      <4>2. CASE job' = [job EXCEPT ![p] = Failed(p)] \/ job' = [job EXCEPT ![p] = Billed(p)]
        <5>1. /\ \A q \in Procs : q # p => job'[q] = job[q]
              /\ job'[p].pc \notin MintLabels
          BY <2>1, <3>1, <4>2
        <5>2. QED
          BY <2>1, <2>2, <4>1, <5>1
      <4>3. CASE /\ cycle[Target(p)].status # "paid"
                 /\ job' = [job EXCEPT ![p].pc = "mint_check",
                                       ![p].attempt = cycle[Target(p)].attempts + 1]
        <5>1. Target(p) # c
          BY <2>1, <4>3
        <5>2. /\ \A q \in Procs : q # p => job'[q] = job[q]
              /\ job'[p].sub = job[p].sub /\ job'[p].start = job[p].start
          BY <2>1, <3>1, <4>3 DEF Job
        <5>3. QED
          BY <2>1, <2>2, <4>1, <5>1, <5>2 DEF Target
      <4>4. QED
        BY <3>3, <4>2, <4>3 DEF MintCycle, Gives
    <3>4. CASE MintCheck(p) \/ MintInsert(p) \/ MintIntent(p) \/ MintAttach(p)
      <4>1. Target(p) # c
        BY <2>1, <3>4
        DEF MintCheck, MintInsert, MintIntent, MintAttach, At, Minting, MintLabels
      <4>2. cycle'[c].status = "paid"
        BY <2>1, <3>4, <4>1 DEF MintCheck, MintInsert, MintIntent, MintAttach, rows
      <4>3. /\ \A q \in Procs : q # p => job'[q] = job[q]
            /\ \/ job'[p].pc \notin MintLabels
               \/ job'[p].sub = job[p].sub /\ job'[p].start = job[p].start
        BY <2>1, <3>1, <3>4
        DEF MintCheck, MintInsert, MintIntent, MintAttach, Gives, Goto, Job
      <4>4. QED
        BY <2>2, <4>1, <4>2, <4>3 DEF Target
    <3>5. QED
      BY <2>3, <3>2, <3>3, <3>4 DEF Generate
  <2>4. ASSUME NEW b \in Cycles, NEW k \in Attempts, Expire(b, k) \/ Submit(b, k) \/ Pay(b, k)
        PROVE  Settled(c)'
    <3>1. job' = job
      BY <2>4 DEF Expire, Submit, Pay
    <3>2. CASE Expire(b, k)
      BY <2>1, <2>2, <3>1, <3>2 DEF Expire
    <3>3. CASE Submit(b, k)
      BY <2>1, <2>2, <3>1, <3>3 DEF Submit
    <3>4. CASE Pay(b, k)
      BY <2>1, <2>2, <3>1, <3>4 DEF Pay
    <3>5. QED
      BY <2>4, <3>2, <3>3, <3>4
  <2>5. ASSUME cycle' = cycle,
               \A q \in Procs : \/ job'[q] = job[q]
                                \/ job'[q].pc \notin MintLabels \ {"mint_cycle"}
        PROVE  Settled(c)'
    BY <2>1, <2>2, <2>5
  <2>6. ASSUME NEW p \in Procs, StatementFails(p) PROVE Settled(c)'
    <3>1. cycle' = cycle
      BY <2>6 DEF StatementFails, rows
    <3>2. job' = [job EXCEPT ![p] = Idle] \/ job' = [job EXCEPT ![p] = Failed(p)]
      BY <2>6 DEF StatementFails, Gives
    <3>3. Idle.pc \notin MintLabels /\ Failed(p).pc \notin MintLabels
      BY IdleTyped, EndsTyped DEF IInv, MintLabels
    <3>4. QED
      BY <2>1, <2>5, <3>1, <3>2, <3>3
  <2>7. CASE BillerTick
    <3>1. cycle' = cycle /\ Biller \in Procs /\ job[Biller] \in Job /\ Idle \in Job
      BY <2>1, <2>7, Constants, IdleTyped
      DEF BillerTick, BillerScan, BillerDueNext, BillerOrphanScan, BillerOrphanNext, rows
    <3>2. \A q \in Procs : q # Biller => job'[q] = job[q]
      BY <2>1, <2>7
      DEF BillerTick, BillerScan, BillerDueNext, BillerOrphanScan, BillerOrphanNext, Gives, Goto
    <3>3. job'[Biller].pc \in {"due_next", "due_read", "orphan_scan", "orphan_next",
                               "mint_cycle", "idle"}
      <4>1. CASE BillerScan \/ BillerOrphanScan
        BY <2>1, <3>1, <4>1 DEF BillerScan, BillerOrphanScan, Goto, Job
      <4>2. CASE BillerDueNext
        <5>1. CASE \E b \in queue : job' = [job EXCEPT ![Biller].pc = "due_read",
                                                      ![Biller].sub = b[1]]
          <6>1. PICK b : job' = [job EXCEPT ![Biller].pc = "due_read", ![Biller].sub = b[1]]
            BY <5>1
          <6>2. job'[Biller].pc = "due_read"
            BY <2>1, <3>1, <6>1 DEF Job
          <6>3. QED
            BY <6>2
        <5>2. CASE job' = [job EXCEPT ![Biller] =
                             [Idle EXCEPT !.pc = "orphan_scan", !.now = job[Biller].now]]
          <6>1. job'[Biller].pc = "orphan_scan"
            BY <2>1, <3>1, <5>2 DEF Job
          <6>2. QED
            BY <6>1
        <5>3. QED
          BY <4>2, <5>1, <5>2 DEF BillerDueNext, Gives
      <4>3. CASE BillerOrphanNext
        <5>1. CASE \E b \in queue : job' = [job EXCEPT ![Biller].pc = "mint_cycle",
                                                      ![Biller].sub = b[1],
                                                      ![Biller].start = b[2]]
          <6>1. PICK b : job' = [job EXCEPT ![Biller].pc = "mint_cycle", ![Biller].sub = b[1],
                                            ![Biller].start = b[2]]
            BY <5>1
          <6>2. job'[Biller].pc = "mint_cycle"
            BY <2>1, <3>1, <6>1 DEF Job
          <6>3. QED
            BY <6>2
        <5>2. CASE job' = [job EXCEPT ![Biller] = Idle]
          <6>1. job'[Biller].pc = "idle"
            BY <2>1, <3>1, <5>2, IdleTyped
          <6>2. QED
            BY <6>1
        <5>3. QED
          BY <4>3, <5>1, <5>2 DEF BillerOrphanNext, Gives
      <4>4. QED
        BY <2>7, <4>1, <4>2, <4>3 DEF BillerTick
    <3>4. QED
      BY <2>5, <3>1, <3>2, <3>3 DEF MintLabels
  <2>8. ASSUME NEW p \in Procs,
               \/ \E s \in Subs, t \in Times : Create(p, s, t)
               \/ \E b \in Cycles : Retry(p, b)
               \/ \E s \in Subs, change \in Changes : ChangeRead(p, s, change)
               \/ ChangeWrite(p)
        PROVE  Settled(c)'
    <3>1. cycle' = cycle /\ job[p] \in Job
      BY <2>1, <2>8 DEF Create, Retry, ChangeRead, ChangeWrite, rows
    <3>2. Rest(p).pc = "done"
      BY IdleTyped DEF Rest, Job
    <3>3. \A q \in Procs : q # p => job'[q] = job[q]
      BY <2>1, <2>8 DEF Create, Retry, ChangeRead, ChangeWrite, Gives
    <3>4. job'[p].pc \in {"due_read", "done", "mint_cycle", "change"}
      <4>1. ASSUME NEW t \in Subs, NEW start \in Times, Create(p, t, start)
            PROVE  job'[p].pc \in {"due_read", "done"}
        BY <2>1, <3>1, <3>2, <4>1 DEF Create, Gives, Job
      <4>2. ASSUME NEW b \in Cycles, Retry(p, b) PROVE job'[p].pc = "mint_cycle"
        BY <2>1, <3>1, <4>2 DEF Retry, Job
      <4>3. ASSUME NEW t \in Subs, NEW change \in Changes, ChangeRead(p, t, change)
            PROVE  job'[p].pc = "change"
        BY <2>1, <3>1, <4>3 DEF ChangeRead, Job
      <4>4. CASE ChangeWrite(p)
        BY <2>1, <3>2, <4>4 DEF ChangeWrite, Gives
      <4>5. QED
        BY <2>8, <4>1, <4>2, <4>3, <4>4
    <3>5. QED
      BY <2>5, <3>1, <3>3, <3>4 DEF MintLabels
  <2>9. CASE Crash
    <3>1. cycle' = cycle
      BY <2>9 DEF Crash, rows
    <3>2. \A q \in Procs : job'[q] = Idle \/ job'[q] = Rest(q)
      BY <2>9 DEF Crash
    <3>3. \A q \in Procs : Idle.pc = "idle" /\ Rest(q).pc = "done"
      BY IdleTyped DEF Rest, Job
    <3>4. QED
      BY <2>5, <3>1, <3>2, <3>3 DEF MintLabels
  <2>10. ASSUME TimePasses \/ (\E s \in Subs, new \in Setups : SetupChanges(s, new))
                \/ UNCHANGED vars
         PROVE  Settled(c)'
    <3>1. cycle' = cycle /\ job' = job
      BY <2>10 DEF TimePasses, SetupChanges, vars, rows
    <3>2. QED
      BY <2>5, <3>1
  <2>11. Creators \subseteq Procs /\ Retriers \subseteq Procs /\ Changers \subseteq Procs
    BY Constants
  <2>12. QED
    BY <2>3, <2>4, <2>6, <2>7, <2>8, <2>9, <2>10, <2>11 DEF Next
<1>2. QED
  BY <1>1, Invariance, PTL DEF Spec, PaidForGood
=============================================================================
