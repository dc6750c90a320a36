-------------------------- MODULE PolicyHookProofs --------------------------
(***************************************************************************)
(* Proofs about the runtime policy and about the agent hook that is        *)
(* switched by it, for any updates, values and number of faults, and any   *)
(* flows, conversations, files, limits, hook policies and programs.        *)
(*                                                                         *)
(* RuntimePolicy: the argument rests on mutual exclusion: the update in    *)
(* progress is the head of the mutex queue, so nobody else moves `current` *)
(* or the file between the candidate it built and its publication.         *)
(* AgentTurns: what a pending turn holds is what was heard of its flow.    *)
(* UploadContext: the queue lists the cached images by age.                *)
(* AgentAttribution: the one candidate that is left is the answer.         *)
(***************************************************************************)
EXTENDS RuntimePolicy, AgentTurns, UploadContext, AgentAttribution,
        FiniteSetTheorems, NaturalsInduction, WellFoundedInduction, SequenceTheorems, TLAPS

Persisting == {"writing", "written", "synced"}
Committed == {"installed", "publishing"}

(* Whoever is in a transaction holds the mutex, and the broker is up.      *)
Exclusive ==
    \A u \in Updates : stage[u] \in Running =>
        broker = "up" /\ queue # <<>> /\ Head(queue) = u

(* Whoever waits for the mutex has a place in the queue.                   *)
Waiting ==
    \A u \in Updates : stage[u] = "queued" =>
        broker = "up" /\ \E i \in 1..Len(queue) : queue[i] = u

(* Updates in progress passed validation.                                  *)
Validated ==
    \A u \in Updates :
        /\ stage[u] \in Running => value[u] \in Values
        /\ section[u] = "hooks" => value[u] \in Values

(* The candidate differs from the committed policy in its section only;    *)
(* after the rename it is the file.                                        *)
Prepared ==
    \A u \in Updates :
        /\ stage[u] \in Running =>
              candidate[u] = [current EXCEPT ![section[u]] = value[u]]
        /\ stage[u] \in Committed => file = candidate[u]
        /\ stage[u] = "synced" => flushed

(* The live snapshot always follows `current`, and so does the file unless *)
(* an update is between its rename and its publication.                    *)
Followed ==
    broker = "up" =>
        /\ live = Effective(current, startup)
        /\ ~Committing => current = file

Durable == solid /\ file \in Policies /\ disk \in Policies /\ file = expected

Inv == TypeOK /\ Exclusive /\ Waiting /\ Validated /\ Prepared /\ Followed /\ Durable

-----------------------------------------------------------------------------
(* Leaving the queue: the others keep their places, the head its lead.     *)
LEMMA WithoutFacts ==
    ASSUME NEW q \in Seq(Updates), NEW u \in Updates,
           \E i \in 1..Len(q) : q[i] = u
    PROVE  /\ Without(q, u) \in Seq(Updates)
           /\ Len(Without(q, u)) = Len(q) - 1
           /\ q[1] # u => Len(q) > 1 /\ Without(q, u)[1] = q[1]
           /\ \A w \in Updates \ {u} :
                 (\E i \in 1..Len(q) : q[i] = w) =>
                     \E j \in 1..(Len(q) - 1) : Without(q, u)[j] = w
<1> DEFINE i == CHOOSE i \in 1..Len(q) : q[i] = u
           r == [j \in 1..(Len(q) - 1) |-> IF j < i THEN q[j] ELSE q[j + 1]]
<1>1. i \in 1..Len(q) /\ q[i] = u
    OBVIOUS
<1>2. Len(q) \in Nat /\ Len(q) - 1 \in Nat
    BY <1>1
<1>3. Without(q, u) = r
    BY DEF Without
<1> HIDE DEF i
<1>4. r \in Seq(Updates) /\ Len(r) = Len(q) - 1
    BY <1>1, <1>2
<1>5. ASSUME q[1] # u PROVE Len(q) > 1 /\ r[1] = q[1]
    BY <1>1, <1>2, <1>5
<1>6. ASSUME NEW w \in Updates \ {u}, NEW k \in 1..Len(q), q[k] = w
      PROVE  \E j \in 1..(Len(q) - 1) : r[j] = w
  <2>1. CASE k < i
      BY <1>1, <1>2, <1>6, <2>1
  <2>2. CASE k > i
    <3>1. k - 1 \in 1..(Len(q) - 1) /\ r[k - 1] = q[k]
        BY <1>1, <1>2, <2>2
    <3> QED BY <1>6, <3>1
  <2> QED BY <1>1, <1>6, <2>1, <2>2
<1> HIDE DEF r
<1> QED BY <1>3, <1>4, <1>5, <1>6

(* Passing the mutex on: everyone behind the head moves up.                *)
LEMMA TailFacts ==
    ASSUME NEW q \in Seq(Updates), q # <<>>
    PROVE  /\ Tail(q) \in Seq(Updates)
           /\ \A w \in Updates \ {Head(q)} :
                 (\E i \in 1..Len(q) : q[i] = w) =>
                     \E j \in 1..Len(Tail(q)) : Tail(q)[j] = w
<1>1. Tail(q) \in Seq(Updates) /\ Len(Tail(q)) = Len(q) - 1
    OBVIOUS
<1>2. ASSUME NEW w \in Updates \ {Head(q)}, NEW k \in 1..Len(q), q[k] = w
      PROVE  \E j \in 1..Len(Tail(q)) : Tail(q)[j] = w
  <2>1. k # 1
      BY <1>2
  <2>2. k - 1 \in 1..Len(Tail(q)) /\ Tail(q)[k - 1] = q[k]
      BY <1>1, <2>1
  <2> QED BY <1>2, <2>2
<1> QED BY <1>1, <1>2

(* The broker starts with the defaults, live and on disk.                  *)
LEMMA InitInv == Init => Inv
<1> SUFFICES ASSUME Init PROVE Inv
    OBVIOUS
<1> USE RuntimePolicyAssumption DEF Init
<1>1. DefaultPolicy \in Policies /\ Effective(DefaultPolicy, Default) \in Policies
    BY DEF DefaultPolicy, Policies, Effective, Sections
<1>2. flushed \in BOOLEAN /\ solid \in BOOLEAN
    OBVIOUS
<1>3. TypeOK
    BY <1>1, <1>2 DEF TypeOK, Stages, Sections
<1>4. Exclusive /\ Waiting /\ Validated /\ Prepared
    BY DEF Exclusive, Waiting, Validated, Prepared, Running, Committed
<1>5. Followed /\ Durable
    BY <1>1 DEF Followed, Durable
<1> QED BY <1>3, <1>4, <1>5 DEF Inv

(* At most one update is in a transaction.                                 *)
LEMMA OneRunning ==
    ASSUME Inv, NEW u \in Updates, NEW w \in Updates,
           stage[u] \in Running, stage[w] \in Running
    PROVE  u = w
BY DEF Inv, Exclusive

-----------------------------------------------------------------------------
(* A new request only joins the end of the queue.                          *)
LEMMA SubmitInv ==
    ASSUME Inv, NEW u \in Updates, NEW s \in Sections,
           NEW v \in Values \cup {Invalid}, s = "hooks" => v \in Values,
           Submit(u, s, v)
    PROVE  Inv'
<1> USE DEF Inv, Submit
<1>1. TypeOK'
    BY DEF TypeOK, Stages, memVars, diskVars
<1>2. Len(queue) \in Nat /\ Len(queue') = Len(queue) + 1 /\ queue'[Len(queue) + 1] = u
      /\ \A i \in 1..Len(queue) : queue'[i] = queue[i]
    BY DEF TypeOK
<1>3. \A w \in Updates : stage'[w] = (IF w = u THEN "queued" ELSE stage[w])
    BY DEF TypeOK
<1>4. Exclusive'
    BY <1>2, <1>3 DEF TypeOK, Exclusive, Running, memVars
<1>5. Waiting' BY <1>2, <1>3 DEF Waiting, memVars
<1>6. Validated'
    BY <1>3 DEF Validated, TypeOK, Running
<1>7. Prepared' BY <1>3 DEF Prepared, Running, Committed, TypeOK, memVars, diskVars
<1>8. Committing' <=> Committing
    BY <1>3 DEF Committing
<1>9. Followed'
    BY <1>8 DEF Followed, memVars, diskVars
<1>10. Durable'
    BY DEF Durable, diskVars
<1> QED BY <1>1, <1>4, <1>5, <1>6, <1>7, <1>9, <1>10

(* A request that gives up while queued leaves the transaction alone.      *)
LEMMA CancelInv ==
    ASSUME Inv, NEW u \in Updates, Cancel(u)
    PROVE  Inv'
<1> USE DEF Inv, Cancel
<1>1. \E i \in 1..Len(queue) : queue[i] = u
    BY DEF Waiting
<1>2. /\ queue' \in Seq(Updates) /\ Len(queue') = Len(queue) - 1
      /\ queue[1] # u => Len(queue) > 1 /\ queue'[1] = queue[1]
      /\ \A w \in Updates \ {u} :
            (\E i \in 1..Len(queue) : queue[i] = w) =>
                \E j \in 1..(Len(queue) - 1) : queue'[j] = w
  <2>1. queue \in Seq(Updates) /\ queue' = Without(queue, u)
      BY DEF TypeOK
  <2> HIDE DEF Inv, Cancel
  <2>2. /\ Without(queue, u) \in Seq(Updates)
        /\ Len(Without(queue, u)) = Len(queue) - 1
        /\ queue[1] # u => Len(queue) > 1 /\ Without(queue, u)[1] = queue[1]
        /\ \A w \in Updates \ {u} :
              (\E i \in 1..Len(queue) : queue[i] = w) =>
                  \E j \in 1..(Len(queue) - 1) : Without(queue, u)[j] = w
      BY <1>1, <2>1, WithoutFacts, Zenon
  <2> QED BY <2>1, <2>2, Zenon
<1>3. \A w \in Updates : stage'[w] = (IF w = u THEN "cancelled" ELSE stage[w])
    BY DEF TypeOK
<1>4. TypeOK'
    BY <1>2 DEF TypeOK, Stages, memVars, diskVars
<1>5. Exclusive' BY <1>2, <1>3 DEF Exclusive, Running, TypeOK, memVars
<1>6. Waiting'
    BY <1>2, <1>3 DEF Waiting, memVars
<1>7. Validated'
    BY <1>3 DEF Validated, TypeOK, Running
<1>8. Prepared'
    BY <1>3 DEF Prepared, TypeOK, Running, Committed, memVars, diskVars
<1>9. Committing' <=> Committing
    BY <1>3 DEF Committing
<1>10. Followed'
    BY <1>9 DEF Followed, memVars, diskVars
<1>11. Durable'
    BY DEF Durable, diskVars
<1> QED BY <1>4, <1>5, <1>6, <1>7, <1>8, <1>10, <1>11

(* The holder gives the mutex up at stage x without having touched the     *)
(* policy: validation or persistence failed.                               *)
LEMMA GiveUpInv ==
    ASSUME Inv, NEW u \in Updates, Holds(u),
           stage[u] \in {"queued", "writing", "written", "synced"},
           stage' = [stage EXCEPT ![u] = "failed"], queue' = Tail(queue),
           UNCHANGED <<memVars, diskVars, section, value, candidate, faults>>
    PROVE  Inv'
<1> USE DEF Inv
<1>1. queue # <<>> /\ Head(queue) = u /\ queue \in Seq(Updates)
    BY DEF Holds, TypeOK
<1>2. queue' \in Seq(Updates)
      /\ \A w \in Updates \ {u} :
            (\E i \in 1..Len(queue) : queue[i] = w) =>
                \E j \in 1..Len(queue') : queue'[j] = w
    BY <1>1, TailFacts
<1>3. \A w \in Updates : stage'[w] = (IF w = u THEN "failed" ELSE stage[w])
    BY DEF TypeOK
<1>4. \A w \in Updates : stage'[w] \notin Running
    BY <1>1, <1>3 DEF Exclusive, Running
<1>5. TypeOK'
    BY <1>2 DEF TypeOK, Stages, memVars, diskVars
<1>6. Exclusive'
    BY <1>4 DEF Exclusive
<1>7. Waiting'
    BY <1>2, <1>3 DEF Waiting, memVars
<1>8. Validated'
    BY <1>4 DEF Validated
<1>9. Prepared'
    BY <1>4 DEF Prepared, Running, Committed
<1>10. Committing' <=> Committing
    BY <1>3 DEF Committing
<1>11. Followed'
    BY <1>10 DEF Followed, memVars, diskVars
<1>12. Durable'
    BY DEF Durable, diskVars
<1> QED BY <1>5, <1>6, <1>7, <1>8, <1>9, <1>11, <1>12

(* Validation passed: the holder builds its candidate.                     *)
LEMMA BeginInv ==
    ASSUME Inv, NEW u \in Updates, Begin(u)
    PROVE  Inv'
<1> USE DEF Inv
<1>0. /\ Holds(u) /\ stage[u] = "queued" /\ queue \in Seq(Updates)
      /\ section[u] \in Sections /\ value[u] \in Values \cup {Invalid}
      /\ current \in Policies
    BY DEF Begin, TypeOK
<1>1. CASE value[u] = Invalid /\ section[u] # "hooks"
    BY <1>0, <1>1, GiveUpInv DEF Begin
<1>2. CASE ~(value[u] = Invalid /\ section[u] # "hooks")
  <2>1. /\ stage' = [stage EXCEPT ![u] = "writing"]
        /\ candidate' = [candidate EXCEPT ![u] = [current EXCEPT ![section[u]] = value[u]]]
        /\ UNCHANGED <<queue, memVars, diskVars, section, value, faults>>
      BY <1>2 DEF Begin
  <2>2. value[u] \in Values
      BY <1>0, <1>2 DEF Validated
  <2>3. [current EXCEPT ![section[u]] = value[u]] \in Policies
      BY <1>0, <2>2, RuntimePolicyAssumption DEF Policies, Sections
  <2>4. \A w \in Updates : stage'[w] = (IF w = u THEN "writing" ELSE stage[w])
      BY <2>1 DEF TypeOK
  <2>5. /\ candidate'[u] = [current EXCEPT ![section[u]] = value[u]]
        /\ \A w \in Updates \ {u} : candidate'[w] = candidate[w]
      BY <2>1 DEF TypeOK
  <2>6. TypeOK'
      BY <2>1, <2>3 DEF TypeOK, Stages, memVars, diskVars
  <2>7. broker = "up"
      BY <1>0 DEF Waiting
  <2>8. Exclusive'
      BY <1>0, <2>1, <2>4, <2>7 DEF Exclusive, Holds, memVars
  <2>9. Waiting'
      BY <2>1, <2>4 DEF Waiting, memVars
  <2>10. Validated'
      BY <2>1, <2>2, <2>4 DEF Validated
  <2>11. Prepared'
    <3> SUFFICES ASSUME NEW w \in Updates, stage'[w] \in Running
                 PROVE  /\ candidate'[w] = [current EXCEPT ![section[w]] = value[w]]
                        /\ stage'[w] \in Committed => file = candidate'[w]
                        /\ stage'[w] = "synced" => flushed
        BY <2>1 DEF Prepared, Running, Committed, memVars, diskVars
    <3>1. CASE w = u BY <2>4, <2>5, <3>1 DEF Committed
    <3>2. CASE w # u
        BY <2>4, <2>5, <3>2 DEF Prepared
    <3> QED BY <3>1, <3>2
  <2>12. Committing' <=> Committing
      BY <1>0, <2>4 DEF Committing
  <2>13. Followed' /\ Durable'
      BY <2>1, <2>12 DEF Followed, Durable, memVars, diskVars
  <2> QED BY <2>6, <2>8, <2>9, <2>10, <2>11, <2>13
<1> QED BY <1>1, <1>2

(* The holder moves on inside its transaction, from stage x to stage y,    *)
(* without changing what readers or a restart see.                         *)
LEMMA ProgressInv ==
    ASSUME Inv, NEW u \in Updates, NEW y \in Running,
           \/ stage[u] \in Persisting /\ y \in Persisting
           \/ stage[u] \in Committed /\ y \in Committed,
           stage' = [stage EXCEPT ![u] = y],
           flushed' \in BOOLEAN, y = "synced" => flushed',
           disk' \in {file, disk},
           UNCHANGED <<memVars, file, solid, expected, queue, section, value,
                       candidate, faults>>
    PROVE  Inv'
<1> USE DEF Inv
<1>1. stage[u] \in Running
    BY DEF Persisting, Committed, Running
<1>2. \A w \in Updates : stage'[w] = (IF w = u THEN y ELSE stage[w])
    BY DEF TypeOK
<1>3. \A w \in Updates : stage'[w] \in Running => w = u
    BY <1>1, <1>2, OneRunning
<1>4. TypeOK' BY DEF Running, Stages, TypeOK, memVars
<1>5. Exclusive'
    BY <1>1, <1>3 DEF Exclusive, memVars
<1>6. Waiting'
    BY <1>2 DEF Waiting, Running, memVars
<1>7. Validated'
    BY <1>1, <1>2 DEF Validated
<1>8. Prepared' BY <1>1, <1>2, <1>3 DEF Prepared, Persisting, Committed, Running, memVars
<1>9. Committing' <=> Committing
    BY <1>2 DEF Committing, Persisting, Committed
<1>10. Followed'
    BY <1>9 DEF Followed, memVars
<1>11. Durable'
    BY DEF Durable
<1> QED BY <1>4, <1>5, <1>6, <1>7, <1>8, <1>10, <1>11

(* The rename: the file becomes the candidate, which is the committed      *)
(* policy with one section replaced.                                       *)
LEMMA InstallInv ==
    ASSUME Inv, NEW u \in Updates, Install(u)
    PROVE  Inv'
<1> USE DEF Inv
<1>1. /\ stage[u] = "synced" /\ stage' = [stage EXCEPT ![u] = "installed"]
      /\ file' = candidate[u] /\ solid' = flushed
      /\ expected' = [expected EXCEPT ![section[u]] = value[u]]
      /\ UNCHANGED <<memVars, disk, flushed, queue, section, value, candidate, faults>>
    BY DEF Install
<1>2. /\ stage[u] \in Running /\ broker = "up" /\ flushed
      /\ candidate[u] = [current EXCEPT ![section[u]] = value[u]]
    BY <1>1 DEF Running, Exclusive, Prepared
<1>3. \A w \in Updates : stage'[w] = (IF w = u THEN "installed" ELSE stage[w])
    BY <1>1 DEF TypeOK
<1>4. \A w \in Updates : stage[w] \in Running => w = u
    BY <1>2, OneRunning
<1>5. ~Committing
    BY <1>1, <1>4 DEF Committing, Running
<1>6. current = file /\ file = expected /\ file' = expected'
    BY <1>1, <1>2, <1>5 DEF Followed, Durable
<1>7. candidate[u] \in Policies /\ file' \in Policies /\ solid'
    BY <1>1, <1>2 DEF TypeOK
<1>8. TypeOK' BY <1>1, <1>6, <1>7 DEF TypeOK, Stages, memVars
<1>9. Exclusive'
    BY <1>1, <1>2, <1>3 DEF Exclusive, memVars
<1>10. Waiting'
    BY <1>1, <1>3 DEF Waiting, memVars
<1>11. Validated'
    BY <1>1, <1>2, <1>3 DEF Validated
<1>12. Prepared'
  <2> SUFFICES ASSUME NEW w \in Updates, stage'[w] \in Running
               PROVE  /\ candidate[w] = [current EXCEPT ![section[w]] = value[w]]
                      /\ stage'[w] \in Committed => file' = candidate[w]
                      /\ stage'[w] = "synced" => flushed
      BY <1>1 DEF Prepared, Running, Committed, memVars
  <2>1. w = u
      BY <1>3, <1>4
  <2>2. stage'[w] = "installed"
      BY <1>3, <2>1
  <2> QED BY <1>1, <1>2, <2>1, <2>2
<1>13. Followed'
  <2>1. Committing'
      BY <1>3 DEF Committing
  <2> QED BY <1>1, <2>1 DEF Followed, memVars
<1>14. Durable'
    BY <1>1, <1>6, <1>7 DEF Durable
<1> QED BY <1>8, <1>9, <1>10, <1>11, <1>12, <1>13, <1>14

(* Replacing one section commutes with filling in the startup route, as    *)
(* long as the new value is a real one.                                    *)
LEMMA EffectiveExcept ==
    ASSUME NEW c \in Policies, NEW x \in Sections, NEW v \in Values, NEW r \in Values
    PROVE  /\ Effective([c EXCEPT ![x] = v], r) = [Effective(c, r) EXCEPT ![x] = v]
           /\ Effective([c EXCEPT ![x] = v], r) \in Policies
           /\ [c EXCEPT ![x] = v] \in Policies
<1> USE RuntimePolicyAssumption
<1>1. c \in [Sections -> Values \cup {Inherit}] /\ v # Inherit /\ r # Inherit
    BY DEF Policies
<1>2. [c EXCEPT ![x] = v] \in Policies
    BY <1>1 DEF Policies, Sections
<1>3. CASE x = "network"
    BY <1>1, <1>2, <1>3 DEF Effective, Policies, Sections
<1>4. CASE x # "network"
    BY <1>1, <1>2, <1>4 DEF Effective, Policies, Sections
<1> QED BY <1>2, <1>3, <1>4

(* Publication: memory catches up with the file and the mutex is passed on. *)
LEMMA PublishInv ==
    ASSUME Inv, NEW u \in Updates, Publish(u)
    PROVE  Inv'
<1> USE DEF Inv
<1>1. /\ stage[u] = "publishing" /\ stage' = [stage EXCEPT ![u] = "done"]
      /\ live' = [live EXCEPT ![section[u]] = value[u]]
      /\ current' = candidate[u] /\ queue' = Tail(queue)
      /\ UNCHANGED <<broker, startup, diskVars, section, value, candidate, faults>>
    BY DEF Publish
<1>2. /\ stage[u] \in Running /\ broker = "up" /\ file = candidate[u]
      /\ candidate[u] = [current EXCEPT ![section[u]] = value[u]]
      /\ value[u] \in Values /\ queue # <<>> /\ Head(queue) = u
    BY <1>1 DEF Running, Committed, Exclusive, Prepared, Validated
<1>3. \A w \in Updates : stage'[w] = (IF w = u THEN "done" ELSE stage[w])
    BY <1>1 DEF TypeOK
<1>4. \A w \in Updates : stage'[w] \notin Running
    BY <1>2, <1>3, OneRunning DEF Running
<1>5. queue' \in Seq(Updates)
      /\ \A w \in Updates \ {u} :
            (\E i \in 1..Len(queue) : queue[i] = w) =>
                \E j \in 1..Len(queue') : queue'[j] = w
  <2>1. queue \in Seq(Updates)
      BY DEF TypeOK
  <2> HIDE DEF Inv
  <2> QED BY <1>1, <1>2, <2>1, TailFacts
<1>6. live' = Effective(current', startup) /\ live' \in Policies /\ current' \in Policies
  <2>1. /\ current \in Policies /\ section[u] \in Sections /\ startup \in Values
        /\ live = Effective(current, startup)
      BY <1>2 DEF TypeOK, Followed
  <2>2. /\ Effective(candidate[u], startup) = [Effective(current, startup) EXCEPT
                                                  ![section[u]] = value[u]]
        /\ Effective(candidate[u], startup) \in Policies
        /\ candidate[u] \in Policies
    <3> DEFINE c == [current EXCEPT ![section[u]] = value[u]]
    <3>1. /\ Effective(c, startup) = [Effective(current, startup) EXCEPT
                                         ![section[u]] = value[u]]
          /\ Effective(c, startup) \in Policies
          /\ c \in Policies
        BY <1>2, <2>1, EffectiveExcept
    <3>2. candidate[u] = c
        BY <1>2
    <3> HIDE DEF c, Inv
    <3> QED BY <3>1, <3>2
  <2> QED BY <1>1, <2>1, <2>2
<1>7. TypeOK' BY <1>1, <1>5, <1>6 DEF TypeOK, Stages, diskVars
<1>8. Exclusive'
    BY <1>4 DEF Exclusive
<1>9. Waiting'
    BY <1>1, <1>3, <1>5, SMTT(40) DEF Waiting
<1>10. Validated'
    BY <1>1, <1>4 DEF Validated
<1>11. Prepared'
    BY <1>4 DEF Prepared, Running, Committed
<1>12. Followed'
    BY <1>1, <1>2, <1>6 DEF Followed, diskVars
<1>13. Durable'
    BY <1>1 DEF Durable, diskVars
<1> QED BY <1>7, <1>8, <1>9, <1>10, <1>11, <1>12, <1>13

(* The broker goes down: nobody is in a transaction any more.              *)
LEMMA DownInv ==
    ASSUME Inv, Down, Durable', disk' \in Policies, flushed' \in BOOLEAN,
           expected' = file'
    PROVE  Inv'
<1> USE DEF Inv
<1>1. /\ broker' = "down" /\ queue' = <<>> /\ faults' = faults + 1
      /\ faults < MaxFaults
      /\ stage' = [u \in Updates |-> IF stage[u] \in Running \cup {"queued"}
                                     THEN "failed" ELSE stage[u]]
      /\ UNCHANGED <<startup, current, live, section, value, candidate>>
    BY DEF Down
<1>2. \A u \in Updates : stage'[u] \notin Running \cup {"queued"}
    BY <1>1 DEF Running
<1>3. TypeOK' BY <1>1, RuntimePolicyAssumption DEF TypeOK, Stages, Durable
<1>4. Exclusive' /\ Waiting'
    BY <1>2 DEF Exclusive, Waiting
<1>5. Validated'
    BY <1>1, <1>2 DEF Validated
<1>6. Prepared'
    BY <1>2 DEF Prepared, Running, Committed
<1>7. Followed'
    BY <1>1 DEF Followed
<1> QED BY <1>3, <1>4, <1>5, <1>6, <1>7

(* A restart loads the file it finds.                                      *)
LEMMA RestartInv ==
    ASSUME Inv, NEW s \in Values, Restart(s)
    PROVE  Inv'
<1> USE DEF Inv
<1>1. /\ broker = "down" /\ broker' = "up" /\ startup' = s /\ file \in Policies
      /\ current' = file /\ live' = Effective(file, s)
      /\ UNCHANGED <<diskVars, queue, stage, section, value, candidate, faults>>
    BY DEF Restart
<1>2. \A u \in Updates : stage'[u] \notin Running \cup {"queued"}
    BY <1>1 DEF Exclusive, Waiting
<1>3. Effective(file, s) \in Policies
    BY <1>1, RuntimePolicyAssumption DEF Effective, Policies, Sections
<1>4. TypeOK'
    BY <1>1, <1>3 DEF TypeOK, diskVars
<1>5. Exclusive' /\ Waiting'
    BY <1>2 DEF Exclusive, Waiting
<1>6. Validated'
    BY <1>1, <1>2 DEF Validated
<1>7. Prepared'
    BY <1>2 DEF Prepared, Running, Committed
<1>8. Followed' /\ Durable'
    BY <1>1 DEF Followed, Durable, diskVars
<1> QED BY <1>4, <1>5, <1>6, <1>7, <1>8

-----------------------------------------------------------------------------
(* Every step of RuntimeConfigService, a fault or a restart keeps the      *)
(* invariant.                                                              *)
LEMMA StepInv == Inv /\ [Next]_vars => Inv'
<1> SUFFICES ASSUME Inv, [Next]_vars PROVE Inv'
    OBVIOUS
<1>0. \A u \in Updates : stage[u] \in Running => Holds(u)
    BY DEF Inv, Exclusive, Holds
<1>1. CASE UNCHANGED vars
    BY <1>1 DEF Inv, TypeOK, Exclusive, Waiting, Validated, Prepared, Followed,
       Durable, Committing, vars
<1>2. ASSUME NEW u \in Updates, NEW s \in Sections, NEW v \in Values, Submit(u, s, v)
      PROVE  Inv'
    BY <1>2, SubmitInv
<1>3. ASSUME NEW u \in Updates, NEW s \in Sections \ {"hooks"}, Submit(u, s, Invalid)
      PROVE  Inv'
    BY <1>3, SubmitInv
<1>4. ASSUME NEW u \in Updates, WriteTemporary(u) PROVE Inv'
    BY <1>4, ProgressInv DEF WriteTemporary, Persisting, Running
<1>5. ASSUME NEW u \in Updates, SyncTemporary(u) PROVE Inv'
    BY <1>5, ProgressInv DEF SyncTemporary, Persisting, Running
<1>6. ASSUME NEW u \in Updates, PersistFails(u) PROVE Inv'
    BY <1>0, <1>6, GiveUpInv DEF PersistFails, Running
<1>7. ASSUME NEW u \in Updates, SyncDirectory(u) PROVE Inv'
  BY <1>7, ProgressInv DEF SyncDirectory, Inv, TypeOK, Committed, Running
<1>8. CASE Kill BY <1>8, DownInv DEF Kill, Inv, Durable, diskVars, TypeOK
<1>9. CASE PowerLoss BY <1>9, DownInv DEF PowerLoss, Inv, Durable
<1>10. ASSUME NEW s \in Values, Restart(s) PROVE Inv'
    BY <1>10, RestartInv
<1> QED
    BY <1>1, <1>2, <1>3, <1>4, <1>5, <1>6, <1>7, <1>8, <1>9, <1>10, CancelInv,
       BeginInv, InstallInv, PublishInv
    DEF Next, TransactionStep

(* Inv holds in every reachable state.                                     *)
THEOREM Invariance == Spec => []Inv
BY InitInv, StepInv, PTL DEF Spec

(* Type correctness of the policy service: candidates, snapshots and files *)
(* are policies.                                                           *)
THEOREM TypeCorrect == Spec => []TypeOK
<1>1. Inv => TypeOK
    BY DEF Inv
<1> QED BY Invariance, <1>1, PTL

(* Whatever failed, was cancelled or crashed before, the live policy is    *)
(* the one a restart would load.                                           *)
THEOREM LivePolicyIsDurable == Spec => []LiveIsDurable
<1>1. Inv => LiveIsDurable
    BY DEF Inv, Followed, LiveIsDurable
<1> QED BY Invariance, <1>1, PTL

(* The policy file is the committed updates applied in commit order.       *)
THEOREM UpdatesAreKept == Spec => []NoLostUpdate
<1>1. Inv => NoLostUpdate
    BY DEF Inv, Durable, NoLostUpdate
<1> QED BY Invariance, <1>1, PTL

(* write_and_replace leaves a policy file the broker can load after any    *)
(* kill or power loss.                                                     *)
THEOREM PolicyFileLoadable == Spec => []AlwaysLoadable
<1>1. Inv => AlwaysLoadable
    BY DEF Inv, Durable, AlwaysLoadable
<1> QED BY Invariance, <1>1, PTL

-----------------------------------------------------------------------------
(* AgentTurns: what a pending turn holds is what was heard of its flow.      *)

Kinds == {"request", "delta", "terminal", "badRequest", "badResponse"}
Frames == [kind : Kinds, content : BOOLEAN, generate : {"yes", "no"}, n : Nat]
Turns ==
    [exchange : BOOLEAN, requests : Seq(Nat), requestSeen : BOOLEAN, generates : {"yes", "no", Unknown},
     identity : Nat, documents : Seq(Nat), overflowed : BOOLEAN,
     requestFailed : BOOLEAN, responseFailed : BOOLEAN, ended : BOOLEAN, at : Nat, order : Nat]

\* A list of frame numbers in order, of those of a set.
Among(list, set) == InOrder(list) /\ ToSet(list) \subseteq set
\* No answer is left out before one that is there.
Leading(list, set) == \A d \in ToSet(list), a \in set : a < d => a \in ToSet(list)

\* What is true of every turn, with h the frames heard since its flow began.
TurnOK(t, h) ==
    /\ Among(t.requests, Asked(h)) /\ Among(t.documents, Answered(h))
    /\ Len(t.documents) <= MaxDocuments
\* What is true of a turn that was watched from its first frame on.
WholeOK(t, h) ==
    /\ ToSet(t.requests) = Asked(h)
    /\ Leading(t.documents, Answered(h))
    /\ t.overflowed <=> ToSet(t.documents) # Answered(h)
    /\ t.responseFailed <=> Bad(h, "badResponse")
    /\ t.requestFailed <=> Bad(h, "badRequest")
    /\ t.requests # <<>> => t.exchange
    /\ (\A q \in Asked(h) : t.identity \in Asked(h) /\ t.identity <= q)
    /\ t.generates = "no" => \A n \in DOMAIN h : h[n].kind = "request" => h[n].generate = "no"
    /\ t.generates = Unknown => \A n \in DOMAIN h : h[n].kind # "request"
\* The frames heard are numbered upwards.
Heard(h) ==
    /\ h \in Seq(Frames)
    /\ \A n \in DOMAIN h : h[n].n \in 1 .. frames
    /\ \A m, n \in DOMAIN h : m < n => h[m].n < h[n].n

TurnTypes ==
    /\ clock \in Nat /\ frames \in Nat /\ observed \in BOOLEAN
    /\ DOMAIN pending \subseteq Flows /\ pending \in [DOMAIN pending -> Turns]
    /\ IsFiniteSet(DOMAIN pending)
    /\ heard \in [Flows -> Seq(Frames)]
    /\ dropped \subseteq Flows
PendingOK ==
    \A f \in DOMAIN pending :
        /\ heard[f] # <<>> /\ pending[f].order = LastHeard(f)
        /\ ~pending[f].ended
        /\ TurnOK(pending[f], heard[f])
        /\ f \notin dropped => WholeOK(pending[f], heard[f])
HeardOK ==
    /\ \A f \in Flows : Heard(heard[f])
    /\ \A f \in Flows : f \notin DOMAIN pending /\ f \notin dropped => heard[f] = <<>>
    /\ \A f, g \in Flows : \A m \in DOMAIN heard[f], n \in DOMAIN heard[g] :
           heard[f][m].n = heard[g][n].n => f = g
HandedOK == NoMixing /\ WholeTurnExact /\ PrewarmOnly /\ EndsOnce
TurnsInv == TurnTypes /\ HeardOK /\ PendingOK /\ HandedOK /\ Cardinality(DOMAIN pending) <= MaxPending

\* A nonempty set of naturals has a least element.
LEMMA LeastNatural ==
    ASSUME NEW S, S \subseteq Nat, S # {}
    PROVE  \E x \in S : \A y \in S : x <= y
  <1>1. PICK x \in S : \A y \in S : ~ (<<y, x>> \in OpToRel(<, Nat))
    BY NatLessThanWellFounded, WFMin
  <1>2. \A y \in S : ~ (y < x)
    BY <1>1 DEF OpToRel
  <1> QED
    BY <1>2

(* A list with one element more. *)
LEMMA NumbersAppended ==
    ASSUME NEW S, NEW s \in Seq(S), NEW x \in S
    PROVE  /\ Append(s, x) \in Seq(S)
           /\ DOMAIN Append(s, x) = 1 .. Len(s) + 1 /\ DOMAIN s = 1 .. Len(s)
           /\ \A n \in DOMAIN s : Append(s, x)[n] = s[n]
           /\ Append(s, x)[Len(s) + 1] = x
           /\ ToSet(Append(s, x)) = ToSet(s) \cup {x}
  <1>1. /\ Append(s, x) \in Seq(S)
        /\ DOMAIN Append(s, x) = 1 .. Len(s) + 1 /\ DOMAIN s = 1 .. Len(s)
        /\ \A n \in DOMAIN s : Append(s, x)[n] = s[n]
        /\ Append(s, x)[Len(s) + 1] = x
    OBVIOUS
  <1>2. Len(s) \in Nat
    OBVIOUS
  <1>3. ToSet(Append(s, x)) = ToSet(s) \cup {x}
    BY <1>1, <1>2 DEF ToSet
  <1> QED
    BY <1>1, <1>3

(* What a list of frames asks, answers and fails, with one frame more. *)
LEMMA FramesAppended ==
    ASSUME NEW h \in Seq(Frames), NEW x \in Frames
    PROVE  /\ Asked(Append(h, x)) = Asked(h) \cup (IF x.kind = "request" /\ x.content THEN {x.n} ELSE {})
           /\ Answered(Append(h, x)) = Answered(h) \cup (IF x.kind \in {"delta", "terminal"} THEN {x.n} ELSE {})
           /\ \A k : Bad(Append(h, x), k) <=> Bad(h, k) \/ x.kind = k
  <1>1. /\ DOMAIN Append(h, x) = 1 .. Len(h) + 1 /\ DOMAIN h = 1 .. Len(h)
        /\ \A n \in DOMAIN h : Append(h, x)[n] = h[n]
        /\ Append(h, x)[Len(h) + 1] = x
        /\ ToSet(Append(h, x)) = ToSet(h) \cup {x}
        /\ Len(h) \in Nat
    BY NumbersAppended
  <1>2. Asked(Append(h, x)) = Asked(h) \cup (IF x.kind = "request" /\ x.content THEN {x.n} ELSE {})
    BY <1>1 DEF Asked
  <1>3. Answered(Append(h, x)) = Answered(h) \cup (IF x.kind \in {"delta", "terminal"} THEN {x.n} ELSE {})
    BY <1>1 DEF Answered
  <1>4. \A k : Bad(Append(h, x), k) <=> Bad(h, k) \/ x.kind = k
    BY <1>1 DEF Bad
  <1> QED
    BY <1>2, <1>3, <1>4

(* The numbers of what was heard are the numbers of frames. *)
LEMMA HeardNumbers ==
    ASSUME NEW h, h \in Seq(Frames), NEW a \in Asked(h) \cup Answered(h)
    PROVE  \E n \in DOMAIN h : a = h[n].n
  BY DEF Asked, Answered, ToSet

\* A number greater than all of a list in order goes to its end.
LEMMA OrderAppended ==
    ASSUME NEW s \in Seq(Nat), NEW x \in Nat, InOrder(s), \A y \in ToSet(s) : y < x
    PROVE  InOrder(Append(s, x))
  <1>1. /\ DOMAIN Append(s, x) = 1 .. Len(s) + 1 /\ DOMAIN s = 1 .. Len(s)
        /\ \A n \in DOMAIN s : Append(s, x)[n] = s[n]
        /\ Append(s, x)[Len(s) + 1] = x
        /\ Len(s) \in Nat
    BY NumbersAppended
  <1>2. \A n \in DOMAIN s : s[n] \in ToSet(s)
    BY DEF ToSet
  <1> QED
    BY <1>1, <1>2 DEF InOrder

(* A turn that has just begun. *)
LEMMA NewTurnIs ==
    /\ NewTurn \in Turns /\ ~NewTurn.ended
    /\ \A h \in Seq(Frames) : TurnOK(NewTurn, h)
    /\ WholeOK(NewTurn, <<>>)
  <1>1. <<>> \in Seq(Nat) /\ ToSet(<<>>) = {} /\ InOrder(<<>>) /\ DOMAIN <<>> = {} /\ Len(<<>>) = 0
    BY DEF ToSet, InOrder
  <1>2. NewTurn \in Turns /\ ~NewTurn.ended
    BY <1>1 DEF NewTurn, Turns, Unknown
  <1>3. \A h \in Seq(Frames) : TurnOK(NewTurn, h)
    BY <1>1, TurnsAssumption DEF TurnOK, Among, NewTurn
  <1>4. WholeOK(NewTurn, <<>>)
    BY <1>1 DEF WholeOK, NewTurn, Leading, Asked, Answered, Bad, Unknown
  <1> QED
    BY <1>2, <1>3, <1>4

\* The fields of a turn after each kind of frame.
LEMMA RecordIs ==
    ASSUME NEW t \in Turns, NEW x \in Frames
    PROVE  LET r == record(t, x)
               answers == x.kind \in {"delta", "terminal"}
               room == Len(t.documents) < MaxDocuments
           IN  /\ r \in Turns
               /\ r.exchange <=> (t.exchange \/ answers \/ x.kind = "request")
               /\ r.requests = IF x.kind = "request" /\ x.content THEN Append(t.requests, x.n) ELSE t.requests
               /\ r.requestSeen <=> (t.requestSeen \/ x.kind = "request")
               /\ r.generates = IF x.kind = "request" /\ t.generates # "yes" THEN x.generate ELSE t.generates
               /\ r.identity = IF \/ (answers \/ x.kind = "request") /\ ~t.exchange
                                  \/ x.kind = "request" /\ x.content /\ t.requests = <<>>
                               THEN x.n ELSE t.identity
               /\ r.documents = IF answers /\ ~t.overflowed /\ room THEN Append(t.documents, x.n)
                                ELSE t.documents
               /\ r.overflowed <=> (t.overflowed \/ (answers /\ ~room))
               /\ r.requestFailed <=> (t.requestFailed \/ x.kind = "badRequest")
               /\ r.responseFailed <=> (t.responseFailed \/ x.kind = "badResponse")
               /\ r.ended <=> (t.ended \/ x.kind = "terminal")
  <1> USE TurnsAssumption
  <1>0. Append(t.requests, x.n) \in Seq(Nat) /\ Append(t.documents, x.n) \in Seq(Nat) /\ Len(t.documents) \in Nat
    BY DEF Turns, Frames
  <1>1. CASE x.kind = "request"
    <2> DEFINE m == merge_request_conversation(t, x)
               first == t.requests = <<>> /\ x.content
               r == record(t, x)
    <2>1. r = merge_exchange(m, x, first)
      BY <1>1 DEF record
    <2>2. m = [t EXCEPT !.requests = IF x.content THEN Append(t.requests, x.n) ELSE t.requests, !.requestSeen = TRUE]
      BY DEF merge_request_conversation
    <2> HIDE DEF m
    <2>3. /\ m \in Turns /\ m.requestSeen
          /\ m.requests = IF x.content THEN Append(t.requests, x.n) ELSE t.requests
          /\ m.generates = t.generates /\ m.identity = t.identity /\ (m.ended <=> t.ended)
          /\ m.documents = t.documents /\ (m.overflowed <=> t.overflowed) /\ (m.exchange <=> t.exchange)
          /\ (m.requestFailed <=> t.requestFailed) /\ (m.responseFailed <=> t.responseFailed)
      BY <1>0, <2>2 DEF Turns
    <2> HIDE DEF first, r
    <2> DEFINE g == IF m.generates = "yes" THEN m.generates ELSE x.generate
               i == IF ~m.exchange \/ first THEN x.n ELSE m.identity
    <2>4. r = [m EXCEPT !.exchange = TRUE, !.generates = g, !.identity = i]
      BY <1>1, <2>1, <2>3 DEF merge_exchange, Turns
    <2>7. g \in {"yes", "no", Unknown} /\ i \in Nat
      BY <2>3 DEF Turns, Frames
    <2> HIDE DEF g, i
    <2>5. r \in Turns /\ r.exchange /\ r.generates = g /\ r.identity = i /\ (r.ended <=> m.ended)
      BY <2>3, <2>4, <2>7 DEF Turns
    <2>6. /\ r.requests = m.requests /\ r.documents = m.documents /\ (r.overflowed <=> m.overflowed)
          /\ (r.requestSeen <=> m.requestSeen)
          /\ (r.requestFailed <=> m.requestFailed) /\ (r.responseFailed <=> m.responseFailed)
      BY <2>3, <2>4 DEF Turns
    <2> QED
      BY <1>1, <2>3, <2>5, <2>6 DEF r, first, g, i
  <1>2. CASE x.kind \in {"delta", "terminal"}
    <2>1. record(t, x) = merge_exchange(buffer_response_document(t, x), x, FALSE)
      BY <1>2 DEF record
    <2> DEFINE b == buffer_response_document(t, x)
    <2>2. /\ b \in Turns
          /\ b.documents = IF ~t.overflowed /\ Len(t.documents) < MaxDocuments
                           THEN Append(t.documents, x.n) ELSE t.documents
          /\ b.overflowed <=> (t.overflowed \/ ~(Len(t.documents) < MaxDocuments))
          /\ (b.exchange <=> t.exchange) /\ b.requests = t.requests /\ (b.requestSeen <=> t.requestSeen)
          /\ b.generates = t.generates /\ b.identity = t.identity /\ (b.ended <=> t.ended)
          /\ (b.requestFailed <=> t.requestFailed) /\ (b.responseFailed <=> t.responseFailed)
      <3>1. CASE t.overflowed
        BY <3>1 DEF buffer_response_document, Turns
      <3>2. CASE ~t.overflowed /\ Len(t.documents) >= MaxDocuments
        <4>1. b = [t EXCEPT !.overflowed = TRUE]
          BY <3>2 DEF buffer_response_document
        <4>2. b \in Turns
          BY <4>1 DEF Turns
        <4>3. ~(Len(t.documents) < MaxDocuments)
          BY <1>0, <3>2
        <4> HIDE DEF b
        <4> QED
          BY <3>2, <4>1, <4>2, <4>3 DEF Turns
      <3>3. CASE ~t.overflowed /\ Len(t.documents) < MaxDocuments
        <4>0. ~(Len(t.documents) >= MaxDocuments)
          BY <1>0, <3>3
        <4>1. b = [t EXCEPT !.documents = Append(t.documents, x.n)]
          BY <3>3, <4>0 DEF buffer_response_document
        <4>2. b \in Turns
          BY <1>0, <4>1 DEF Turns
        <4> HIDE DEF b
        <4> QED
          BY <3>3, <4>1, <4>2 DEF Turns
      <3> QED
        BY <1>0, <3>1, <3>2, <3>3
    <2> HIDE DEF b
    <2>3. merge_exchange(b, x, FALSE) =
              [b EXCEPT !.exchange = TRUE, !.identity = IF ~b.exchange THEN x.n ELSE @,
                        !.ended = @ \/ x.kind = "terminal"]
      BY <1>2, <2>2 DEF merge_exchange, Turns
    <2> DEFINE r == record(t, x)
    <2>4. r = [b EXCEPT !.exchange = TRUE, !.identity = IF ~b.exchange THEN x.n ELSE @,
                        !.ended = @ \/ x.kind = "terminal"]
      BY <2>1, <2>3 DEF b
    <2> HIDE DEF r
    <2>5. r \in Turns /\ r.exchange /\ (r.ended <=> (t.ended \/ x.kind = "terminal"))
      BY <2>2, <2>4 DEF Turns, Frames
    <2>6. /\ r.requests = t.requests /\ r.generates = t.generates
          /\ r.documents = b.documents /\ (r.overflowed <=> b.overflowed)
          /\ (r.requestSeen <=> t.requestSeen)
          /\ (r.requestFailed <=> t.requestFailed) /\ (r.responseFailed <=> t.responseFailed)
          /\ r.identity = IF ~t.exchange THEN x.n ELSE t.identity
      BY <2>2, <2>4 DEF Turns, Frames
    <2> QED
      BY <1>2, <2>2, <2>5, <2>6 DEF r
  <1>3. CASE x.kind = "badRequest"
    BY <1>0, <1>3 DEF record, Turns, Frames, Kinds
  <1>4. CASE x.kind = "badResponse"
    BY <1>0, <1>4 DEF record, Turns, Frames, Kinds
  <1> QED
    BY <1>1, <1>2, <1>3, <1>4 DEF Frames, Kinds

\* A frame that is newer than what was heard keeps a turn in step with it.
LEMMA RecordKeeps ==
    ASSUME NEW t \in Turns, NEW h \in Seq(Frames), NEW x \in Frames,
           \A n \in DOMAIN h : h[n].n < x.n, TurnOK(t, h)
    PROVE  TurnOK(record(t, x), Append(h, x))
  <1> DEFINE r == record(t, x)
             H == Append(h, x)
  <1>1. /\ r.requests = IF x.kind = "request" /\ x.content THEN Append(t.requests, x.n) ELSE t.requests
        /\ r.documents = IF /\ x.kind \in {"delta", "terminal"} /\ ~t.overflowed
                            /\ Len(t.documents) < MaxDocuments
                         THEN Append(t.documents, x.n) ELSE t.documents
    BY RecordIs
  <1>2. /\ Asked(H) = Asked(h) \cup (IF x.kind = "request" /\ x.content THEN {x.n} ELSE {})
        /\ Answered(H) = Answered(h) \cup (IF x.kind \in {"delta", "terminal"} THEN {x.n} ELSE {})
    BY FramesAppended
  <1>3. \A a \in Asked(h) \cup Answered(h) : a < x.n
    BY HeardNumbers
  <1>4. x.n \in Nat /\ t.requests \in Seq(Nat) /\ t.documents \in Seq(Nat)
    BY DEF Frames, Turns
  <1>5. /\ ToSet(Append(t.requests, x.n)) = ToSet(t.requests) \cup {x.n}
        /\ ToSet(Append(t.documents, x.n)) = ToSet(t.documents) \cup {x.n}
        /\ Len(Append(t.documents, x.n)) = Len(t.documents) + 1 /\ Len(t.documents) \in Nat
    <2>1. Len(Append(t.documents, x.n)) = Len(t.documents) + 1 /\ Len(t.documents) \in Nat
      BY <1>4
    <2> QED
      BY <1>4, <2>1, NumbersAppended
  <1>6. /\ InOrder(Append(t.requests, x.n)) /\ InOrder(Append(t.documents, x.n))
        /\ InOrder(t.requests) /\ InOrder(t.documents)
    BY <1>3, <1>4, OrderAppended DEF TurnOK, Among
  <1>7. Among(r.requests, Asked(H))
    BY <1>1, <1>2, <1>5, <1>6 DEF TurnOK, Among
  <1>8. Among(r.documents, Answered(H))
    BY <1>1, <1>2, <1>5, <1>6 DEF TurnOK, Among
  <1>9. Len(r.documents) <= MaxDocuments
    BY <1>1, <1>5, TurnsAssumption DEF TurnOK
  <1> QED
    BY <1>7, <1>8, <1>9 DEF TurnOK

(* Recording a frame keeps a whole turn whole. *)
LEMMA RecordKeepsWhole ==
    ASSUME NEW t \in Turns, NEW h \in Seq(Frames), NEW x \in Frames,
           \A n \in DOMAIN h : h[n].n < x.n, TurnOK(t, h), WholeOK(t, h)
    PROVE  WholeOK(record(t, x), Append(h, x))
  <1> DEFINE r == record(t, x)
             H == Append(h, x)
             answers == x.kind \in {"delta", "terminal"}
             room == Len(t.documents) < MaxDocuments
             asks == x.kind = "request" /\ x.content
  <1>1. /\ r.exchange <=> (t.exchange \/ answers \/ x.kind = "request")
        /\ r.requests = IF asks THEN Append(t.requests, x.n) ELSE t.requests
        /\ r.generates = IF x.kind = "request" /\ t.generates # "yes" THEN x.generate ELSE t.generates
        /\ r.identity = IF \/ (answers \/ x.kind = "request") /\ ~t.exchange
                           \/ x.kind = "request" /\ x.content /\ t.requests = <<>>
                        THEN x.n ELSE t.identity
        /\ r.documents = IF answers /\ ~t.overflowed /\ room THEN Append(t.documents, x.n) ELSE t.documents
        /\ r.overflowed <=> (t.overflowed \/ (answers /\ ~room))
        /\ r.requestFailed <=> (t.requestFailed \/ x.kind = "badRequest")
        /\ r.responseFailed <=> (t.responseFailed \/ x.kind = "badResponse")
    BY RecordIs
  <1>2. /\ Asked(H) = Asked(h) \cup (IF asks THEN {x.n} ELSE {})
        /\ Answered(H) = Answered(h) \cup (IF answers THEN {x.n} ELSE {})
        /\ \A k : Bad(H, k) <=> Bad(h, k) \/ x.kind = k
    BY FramesAppended
  <1>3. \A a \in Asked(h) \cup Answered(h) : a < x.n /\ a \in Nat
    <2>0. \A n \in DOMAIN h : h[n] \in Frames
      OBVIOUS
    <2>1. \A n \in DOMAIN h : h[n].n \in Nat
      BY <2>0 DEF Frames
    <2> QED
      BY <2>1, HeardNumbers
  <1>4. x.n \in Nat /\ t.requests \in Seq(Nat) /\ t.documents \in Seq(Nat)
        /\ t.overflowed \in BOOLEAN /\ t.exchange \in BOOLEAN
        /\ t.requestFailed \in BOOLEAN /\ t.responseFailed \in BOOLEAN
    BY DEF Frames, Turns
  <1>5. /\ ToSet(Append(t.requests, x.n)) = ToSet(t.requests) \cup {x.n}
        /\ ToSet(Append(t.documents, x.n)) = ToSet(t.documents) \cup {x.n}
        /\ Append(t.requests, x.n) # <<>>
    <2>1. Len(Append(t.requests, x.n)) = Len(t.requests) + 1 /\ Len(t.requests) \in Nat /\ Len(<<>>) = 0
      BY <1>4
    <2>2. Append(t.requests, x.n) # <<>>
      BY <2>1
    <2>3. ToSet(Append(t.requests, x.n)) = ToSet(t.requests) \cup {x.n}
      BY <1>4, NumbersAppended
    <2>4. ToSet(Append(t.documents, x.n)) = ToSet(t.documents) \cup {x.n}
      <3> DEFINE d == t.documents
      <3>1. d \in Seq(Nat) /\ x.n \in Nat
        BY <1>4
      <3> HIDE DEF d
      <3>2. ToSet(Append(d, x.n)) = ToSet(d) \cup {x.n}
        BY <3>1, NumbersAppended
      <3> QED
        BY <3>2 DEF d
    <2> QED
      BY <2>2, <2>3, <2>4
  <1>6. ToSet(t.documents) \subseteq Answered(h) /\ x.n \notin Answered(h) /\ x.n \notin Asked(h)
    BY <1>3, <1>4 DEF TurnOK, Among
  <1>7. ToSet(r.requests) = Asked(H)
    BY <1>1, <1>2, <1>5 DEF WholeOK
  <1>8. Leading(r.documents, Answered(H)) BY <1>1, <1>2, <1>3, <1>4, <1>5, <1>6 DEF WholeOK, Leading
  <1>9. r.overflowed <=> ToSet(r.documents) # Answered(H)
    BY <1>1, <1>2, <1>4, <1>5, <1>6 DEF WholeOK
  <1>10. /\ r.responseFailed <=> Bad(H, "badResponse")
         /\ r.requestFailed <=> Bad(H, "badRequest")
    BY <1>1, <1>2, <1>4 DEF WholeOK
  <1>11. r.requests # <<>> => r.exchange
    BY <1>1, <1>4 DEF WholeOK
  <1>12. \A q \in Asked(H) : r.identity \in Asked(H) /\ r.identity <= q
    <2>1. ToSet(t.requests) = Asked(h)
      BY DEF WholeOK
    <2>2. t.requests = <<>> <=> Asked(h) = {}
      <3>1. t.requests = <<>> => ToSet(t.requests) = {}
        BY DEF ToSet
      <3>2. t.requests # <<>> => t.requests[1] \in ToSet(t.requests)
        BY <1>4 DEF ToSet
      <3> QED
        BY <2>1, <3>1, <3>2
    <2>3. CASE Asked(h) = {}
      BY <1>1, <1>2, <1>4, <2>2, <2>3
    <2>4. CASE Asked(h) # {} BY <1>1, <1>2, <1>3, <1>4, <2>2, <2>4 DEF WholeOK
    <2> QED
      BY <2>3, <2>4
  <1>13. /\ DOMAIN H = 1 .. Len(h) + 1 /\ DOMAIN h = 1 .. Len(h) /\ Len(h) \in Nat
         /\ \A n \in DOMAIN h : H[n] = h[n]
         /\ H[Len(h) + 1] = x
    BY NumbersAppended
  <1>14. x.generate \in {"yes", "no"} /\ t.generates \in {"yes", "no", Unknown}
    BY DEF Frames, Turns
  <1>15. r.generates = "no" => \A n \in DOMAIN H : H[n].kind = "request" => H[n].generate = "no"
    BY <1>1, <1>13, <1>14 DEF WholeOK, Unknown
  <1>16. r.generates = Unknown => \A n \in DOMAIN H : H[n].kind # "request"
    BY <1>1, <1>13, <1>14 DEF WholeOK, Unknown
  <1> QED
    BY <1>7, <1>8, <1>9, <1>10, <1>11, <1>12, <1>15, <1>16 DEF WholeOK

\* What a frame finds: the turns that are not too old, and its own.
KeptTurns == Retained(pending)
TurnAt(f) == IF f \in DOMAIN KeptTurns THEN KeptTurns[f] ELSE NewTurn
Aside(f) == WithoutTurns(KeptTurns, {f})

(* The turns that are not too old are the turns there were. *)
LEMMA KeptAre ==
    ASSUME TurnsInv, NEW f \in Flows
    PROVE  /\ DOMAIN KeptTurns \subseteq DOMAIN pending
           /\ \A g \in DOMAIN KeptTurns : KeptTurns[g] = pending[g]
           /\ \A g \in DOMAIN pending \ DOMAIN KeptTurns : clock - pending[g].at > Ttl
           /\ DOMAIN Aside(f) = DOMAIN KeptTurns \ {f}
           /\ \A g \in DOMAIN Aside(f) : Aside(f)[g] = pending[g]
           /\ IsFiniteSet(DOMAIN KeptTurns) /\ IsFiniteSet(DOMAIN Aside(f))
           /\ Cardinality(DOMAIN Aside(f)) <= Cardinality(DOMAIN pending)
           /\ Cardinality(DOMAIN Aside(f)) \in Nat
  <1>1. /\ DOMAIN KeptTurns = DOMAIN pending \ {g \in DOMAIN pending : clock - pending[g].at > Ttl}
        /\ \A g \in DOMAIN KeptTurns : KeptTurns[g] = pending[g]
    BY DEF KeptTurns, Retained, WithoutTurns
  <1>2. /\ DOMAIN Aside(f) = DOMAIN KeptTurns \ {f}
        /\ \A g \in DOMAIN Aside(f) : Aside(f)[g] = KeptTurns[g]
    BY DEF Aside, WithoutTurns
  <1>3. DOMAIN KeptTurns \subseteq DOMAIN pending /\ DOMAIN Aside(f) \subseteq DOMAIN pending
    BY <1>1, <1>2
  <1>4. IsFiniteSet(DOMAIN pending)
    BY DEF TurnsInv, TurnTypes
  <1>5. IsFiniteSet(DOMAIN KeptTurns) /\ IsFiniteSet(DOMAIN Aside(f))
        /\ Cardinality(DOMAIN Aside(f)) <= Cardinality(DOMAIN pending)
    BY <1>3, <1>4, FS_Subset
  <1>6. Cardinality(DOMAIN Aside(f)) \in Nat
    BY <1>5, FS_CardinalityType
  <1> QED
    BY <1>1, <1>2, <1>3, <1>5, <1>6

(* The turn of the flow after a frame is recorded. *)
LEMMA PushedTurn ==
    ASSUME TurnsInv, NEW f \in Flows, NEW x \in Frames, x.n = frames + 1
    PROVE  LET turn == record(TurnAt(f), x)
               h == Append(heard[f], x)
           IN  /\ turn \in Turns /\ TurnOK(turn, h)
               /\ f \notin dropped /\ (f \in DOMAIN pending => f \in DOMAIN KeptTurns) => WholeOK(turn, h)
               /\ turn.ended => x.kind = "terminal"
               /\ x.kind = "terminal" => turn.exchange
  <1> DEFINE t == TurnAt(f)
  <1>1. heard[f] \in Seq(Frames) /\ \A n \in DOMAIN heard[f] : heard[f][n].n \in 1 .. frames
    BY DEF TurnsInv, HeardOK, Heard
  <1>2. \A n \in DOMAIN heard[f] : heard[f][n].n < x.n
    BY <1>1 DEF TurnsInv, TurnTypes
  <1>3. t \in Turns /\ ~t.ended /\ TurnOK(t, heard[f])
    BY <1>1, KeptAre, NewTurnIs DEF TurnAt, TurnsInv, TurnTypes, PendingOK
  <1>4. ASSUME f \notin dropped, f \in DOMAIN pending => f \in DOMAIN KeptTurns
        PROVE  WholeOK(t, heard[f]) BY <1>4, KeptAre, NewTurnIs DEF TurnAt, TurnsInv, PendingOK, HeardOK
  <1> HIDE DEF t
  <1>5. record(t, x) \in Turns /\ TurnOK(record(t, x), Append(heard[f], x))
    BY <1>1, <1>2, <1>3, RecordIs, RecordKeeps
  <1>6. f \notin dropped /\ (f \in DOMAIN pending => f \in DOMAIN KeptTurns)
            => WholeOK(record(t, x), Append(heard[f], x))
    BY <1>1, <1>2, <1>3, <1>4, RecordKeepsWhole
  <1>7. /\ record(t, x).ended => x.kind = "terminal"
        /\ x.kind = "terminal" => record(t, x).exchange
    BY <1>3, RecordIs
  <1> QED
    BY <1>5, <1>6, <1>7 DEF t

\* The frames heard stay in step when one more is heard.
LEMMA HeardGrows ==
    ASSUME TurnsInv, NEW f \in Flows, NEW x \in Frames, x.n = frames + 1,
           frames' = frames + 1,
           heard' = [heard EXCEPT ![f] = <<>>] \/ heard' = [heard EXCEPT ![f] = Append(@, x)]
    PROVE  /\ heard' \in [Flows -> Seq(Frames)]
           /\ \A g \in Flows : Heard(heard[g])'
           /\ \A g, k \in Flows : \A m \in DOMAIN heard'[g], n \in DOMAIN heard'[k] :
                  heard'[g][m].n = heard'[k][n].n => g = k
  <1>1. /\ frames \in Nat /\ heard \in [Flows -> Seq(Frames)]
        /\ \A g \in Flows : Heard(heard[g])
        /\ \A g, k \in Flows : \A m \in DOMAIN heard[g], n \in DOMAIN heard[k] :
               heard[g][m].n = heard[k][n].n => g = k
    BY DEF TurnsInv, TurnTypes, HeardOK
  <1>2. \A g \in Flows : /\ heard[g] \in Seq(Frames)
                         /\ \A n \in DOMAIN heard[g] : heard[g][n].n \in 1 .. frames
                         /\ \A m, n \in DOMAIN heard[g] : m < n => heard[g][m].n < heard[g][n].n
    BY <1>1 DEF Heard
  <1>3. CASE heard' = [heard EXCEPT ![f] = <<>>] BY <1>1, <1>2, <1>3 DEF Heard
  <1>4. CASE heard' = [heard EXCEPT ![f] = Append(@, x)]
    <2>1. heard'[f] = Append(heard[f], x) /\ \A g \in Flows \ {f} : heard'[g] = heard[g]
      BY <1>1, <1>4
    <2>2. /\ heard'[f] \in Seq(Frames)
          /\ DOMAIN heard'[f] = 1 .. Len(heard[f]) + 1 /\ DOMAIN heard[f] = 1 .. Len(heard[f])
          /\ Len(heard[f]) \in Nat
          /\ \A n \in DOMAIN heard[f] : heard'[f][n] = heard[f][n]
          /\ heard'[f][Len(heard[f]) + 1] = x
      BY <1>2, <2>1, NumbersAppended
    <2>3. heard' \in [Flows -> Seq(Frames)]
      BY <1>1, <1>4, <2>1, <2>2
    <2>4. Heard(heard[f])'
      <3>1. \A n \in DOMAIN heard'[f] : n \in DOMAIN heard[f] \/ n = Len(heard[f]) + 1
        BY <2>2
      <3>2. \A n \in DOMAIN heard'[f] : heard'[f][n].n \in 1 .. frames + 1
        BY <1>1, <1>2, <2>2, <3>1
      <3>3. ASSUME NEW m \in DOMAIN heard'[f], NEW n \in DOMAIN heard'[f], m < n
            PROVE  heard'[f][m].n < heard'[f][n].n
        <4>1. m \in DOMAIN heard[f]
          BY <2>2, <3>1, <3>3
        <4>2. heard[f][m].n \in 1 .. frames
          BY <1>2, <4>1
        <4>3. heard'[f][m].n = heard[f][m].n
          BY <2>2, <4>1
        <4>4. CASE n \in DOMAIN heard[f]
          BY <1>2, <2>2, <3>3, <4>1, <4>3, <4>4
        <4>5. CASE n = Len(heard[f]) + 1 BY <1>1, <2>2, <4>2, <4>3, <4>5
        <4> QED
          BY <3>1, <4>4, <4>5
      <3> QED
        BY <2>2, <3>2, <3>3 DEF Heard
    <2>5. \A g \in Flows \ {f} : Heard(heard[g])'
      BY <1>1, <1>2, <2>1 DEF Heard
    <2>6. \A g \in Flows : \A n \in DOMAIN heard'[g] :
              \/ n \in DOMAIN heard[g] /\ heard'[g][n] = heard[g][n] /\ heard[g][n].n \in 1 .. frames
              \/ g = f /\ heard'[g][n].n = frames + 1
      <3>1. \A g \in Flows \ {f} : \A n \in DOMAIN heard'[g] :
                n \in DOMAIN heard[g] /\ heard'[g][n] = heard[g][n] /\ heard[g][n].n \in 1 .. frames
        BY <1>2, <2>1
      <3>2. \A n \in DOMAIN heard'[f] :
              \/ n \in DOMAIN heard[f] /\ heard'[f][n] = heard[f][n] /\ heard[f][n].n \in 1 .. frames
              \/ heard'[f][n].n = frames + 1 BY <1>2, <2>2
      <3> QED
        BY <3>1, <3>2
    <2>7. \A g, k \in Flows : \A m \in DOMAIN heard'[g], n \in DOMAIN heard'[k] :
              heard'[g][m].n = heard'[k][n].n => g = k
      BY <1>1, <2>6
    <2> QED
      BY <2>3, <2>4, <2>5, <2>7
  <1> QED
    BY <1>3, <1>4

Others(f) == MakeRoom(Aside(f))

\* A turn's order is the number of the last frame of its flow.
LEMMA LastFrame ==
    ASSUME TurnsInv, NEW f \in DOMAIN pending
    PROVE  /\ f \in Flows /\ Len(heard[f]) \in DOMAIN heard[f]
           /\ pending[f].order = heard[f][Len(heard[f])].n
           /\ pending[f].order \in 1 .. frames
  <1>1. /\ f \in Flows /\ heard[f] \in Seq(Frames) /\ heard[f] # <<>>
        /\ pending[f].order = LastHeard(f)
        /\ \A n \in DOMAIN heard[f] : heard[f][n].n \in 1 .. frames
    BY DEF TurnsInv, TurnTypes, PendingOK, HeardOK, Heard
  <1>2. Len(heard[f]) \in DOMAIN heard[f]
    BY <1>1
  <1> QED
    BY <1>1, <1>2 DEF LastHeard

(* Two pending turns have different last frames. *)
LEMMA OrdersDiffer ==
    ASSUME TurnsInv, NEW f \in DOMAIN pending, NEW g \in DOMAIN pending, f # g
    PROVE  pending[f].order # pending[g].order
  BY LastFrame DEF TurnsInv, HeardOK

\* Making room takes at most one turn, the one heard longest ago.
LEMMA RoomMade ==
    ASSUME TurnsInv, NEW f \in Flows
    PROVE  /\ DOMAIN Others(f) \subseteq DOMAIN Aside(f)
           /\ \A g \in DOMAIN Others(f) : Others(f)[g] = pending[g]
           /\ IsFiniteSet(DOMAIN Others(f))
           /\ Cardinality(DOMAIN Others(f)) \in Nat /\ Cardinality(DOMAIN Others(f)) < MaxPending
           /\ \A o \in DOMAIN Aside(f) \ DOMAIN Others(f) :
                  /\ Cardinality(DOMAIN Others(f)) = MaxPending - 1
                  /\ \A g \in DOMAIN Others(f) : pending[o].order < pending[g].order
  <1> DEFINE A == DOMAIN Aside(f)
  <1>1. /\ IsFiniteSet(A) /\ Cardinality(A) \in Nat /\ Cardinality(A) <= MaxPending
        /\ A \subseteq DOMAIN pending
        /\ \A g \in A : Aside(f)[g] = pending[g]
    <2>1. Cardinality(A) <= Cardinality(DOMAIN pending) /\ Cardinality(DOMAIN pending) <= MaxPending
          /\ IsFiniteSet(DOMAIN pending)
      BY KeptAre DEF TurnsInv, TurnTypes
    <2>2. Cardinality(DOMAIN pending) \in Nat
      BY <2>1, FS_CardinalityType
    <2>3. A \subseteq DOMAIN pending /\ IsFiniteSet(A) /\ Cardinality(A) \in Nat
          /\ \A g \in A : Aside(f)[g] = pending[g]
      BY KeptAre
    <2> HIDE DEF A
    <2> QED
      BY <2>1, <2>2, <2>3, TurnsAssumption
  <1>2. CASE Cardinality(A) < MaxPending BY <1>1, <1>2, TurnsAssumption DEF Others, MakeRoom
  <1>3. CASE ~(Cardinality(A) < MaxPending)
    <2>1. Cardinality(A) = MaxPending /\ MaxPending > 0
      BY <1>1, <1>3, TurnsAssumption
    <2> DEFINE o == Oldest(Aside(f))
    <2>2. Others(f) = WithoutTurns(Aside(f), {o})
      BY <2>1, TurnsAssumption DEF Others, MakeRoom
    <2>3. DOMAIN Others(f) = A \ {o} /\ \A g \in A \ {o} : Others(f)[g] = pending[g]
      BY <1>1, <2>2 DEF WithoutTurns
    <2>4. o \in A /\ \A g \in A : pending[o].order <= pending[g].order
      <3>1. \E p \in A : \A g \in A : pending[p].order <= pending[g].order
        <4> DEFINE S == {pending[g].order : g \in A}
        <4>1. S \subseteq Nat /\ S # {}
          <5>1. A # {}
            BY <2>1, FS_EmptySet, TurnsAssumption
          <5>2. \A g \in A : pending[g] \in Turns
            BY <1>1 DEF TurnsInv, TurnTypes
          <5> QED
            BY <5>1, <5>2 DEF Turns
        <4>2. PICK least \in S : \A n \in S : least <= n
          BY <4>1, LeastNatural
        <4> QED
          BY <4>2
      <3>2. \E p \in A : \A g \in A : Aside(f)[p].order <= Aside(f)[g].order
        BY <1>1, <3>1
      <3>3. o \in A /\ \A g \in A : Aside(f)[o].order <= Aside(f)[g].order
        BY <3>2 DEF Oldest
      <3> QED
        BY <1>1, <3>3
    <2> HIDE DEF o
    <2>5. IsFiniteSet(A \ {o}) /\ Cardinality(A \ {o}) = MaxPending - 1
      BY <1>1, <2>1, <2>4, FS_RemoveElement
    <2>6. \A g \in A \ {o} : pending[o].order < pending[g].order
      <3>1. ASSUME NEW g \in A \ {o}
            PROVE  pending[o].order < pending[g].order
        <4>1. /\ o \in DOMAIN pending /\ g \in DOMAIN pending /\ o # g
              /\ pending[o].order \in Nat /\ pending[g].order \in Nat
          BY <1>1, <2>4, <3>1 DEF TurnsInv, TurnTypes, Turns
        <4>2. pending[o].order # pending[g].order
          BY <4>1, OrdersDiffer
        <4> QED
          BY <2>4, <4>1, <4>2
      <3> QED
        BY <3>1
    <2>7. \A k \in A \ DOMAIN Others(f) : k = o
      BY <2>3
    <2> QED
      BY <1>1, <2>1, <2>3, <2>5, <2>6, <2>7, TurnsAssumption
  <1> QED
    BY <1>2, <1>3

(* A frame of an observed flow keeps the invariant. *)
LEMMA PushInv ==
    ASSUME TurnsInv, NEW f \in Flows, NEW x \in Frames, x.n = frames + 1, frames' = frames + 1,
           UNCHANGED <<clock, observed>>, Push(f, x)
    PROVE  TurnsInv'
  <1> DEFINE turn == record(TurnAt(f), x)
             h == Append(heard[f], x)
             gone == DOMAIN pending \ DOMAIN KeptTurns
  <1>1. /\ turn \in Turns /\ TurnOK(turn, h)
        /\ f \notin dropped /\ f \notin gone => WholeOK(turn, h)
        /\ turn.ended => x.kind = "terminal"
        /\ x.kind = "terminal" => turn.exchange
    BY PushedTurn
  <1>2. h \in Seq(Frames) /\ h # <<>> /\ h[Len(h)] = x
    <2>1. heard[f] \in Seq(Frames)
      BY DEF TurnsInv, TurnTypes
    <2>2. Len(h) = Len(heard[f]) + 1 /\ h[Len(heard[f]) + 1] = x /\ Len(heard[f]) \in Nat /\ h \in Seq(Frames)
      BY <2>1
    <2>3. Len(<<>>) = 0
      OBVIOUS
    <2> QED
      BY <2>2, <2>3
  <1>3. /\ DOMAIN Aside(f) = DOMAIN KeptTurns \ {f} /\ DOMAIN KeptTurns \subseteq DOMAIN pending
        /\ \A g \in DOMAIN Aside(f) : Aside(f)[g] = pending[g]
        /\ IsFiniteSet(DOMAIN Aside(f))
    BY KeptAre
  <1>4. /\ DOMAIN pending \subseteq Flows /\ pending \in [DOMAIN pending -> Turns]
        /\ heard \in [Flows -> Seq(Frames)] /\ dropped \subseteq Flows
        /\ frames \in Nat /\ clock \in Nat /\ observed \in BOOLEAN
    BY DEF TurnsInv, TurnTypes
  <1>5. \A g \in DOMAIN pending : /\ heard[g] # <<>> /\ pending[g].order = LastHeard(g)
                                  /\ ~pending[g].ended /\ TurnOK(pending[g], heard[g])
                                  /\ g \notin dropped => WholeOK(pending[g], heard[g])
    BY DEF TurnsInv, PendingOK
  <1>6. CASE turn.exchange /\ turn.ended
    <2> DEFINE e == [complete(f, turn) EXCEPT !.gap = @ \/ f \in gone, !.heard = h]
    <2>1. /\ pending' = Aside(f) /\ handed' = e
          /\ heard' = [heard EXCEPT ![f] = <<>>]
          /\ dropped' = (dropped \cup (DOMAIN pending \ DOMAIN Aside(f))) \ {f}
      BY <1>6 DEF Push, KeptTurns, TurnAt, Aside
    <2>2. /\ heard' \in [Flows -> Seq(Frames)]
          /\ \A g \in Flows : Heard(heard[g])'
          /\ \A g, k \in Flows : \A m \in DOMAIN heard'[g], n \in DOMAIN heard'[k] :
                 heard'[g][m].n = heard'[k][n].n => g = k
      BY <2>1, HeardGrows
    <2>3. heard'[f] = <<>> /\ \A g \in Flows \ {f} : heard'[g] = heard[g]
      BY <1>4, <2>1
    <2>4. TurnTypes'
      BY <1>3, <1>4, <2>1, <2>2 DEF TurnTypes, Aside, WithoutTurns
    <2>5. HeardOK'
      <3>1. ASSUME NEW g \in Flows, g \notin DOMAIN pending', g \notin dropped'
            PROVE  heard'[g] = <<>> BY <2>1, <2>3, <3>1 DEF TurnsInv, HeardOK
      <3> QED
        BY <2>2, <3>1 DEF HeardOK
    <2>6. PendingOK' BY <1>3, <1>4, <1>5, <2>1, <2>3 DEF LastHeard, PendingOK
    <2>7. Cardinality(DOMAIN pending') <= MaxPending
      <3>1. Cardinality(DOMAIN Aside(f)) <= Cardinality(DOMAIN pending) /\ Cardinality(DOMAIN Aside(f)) \in Nat
            /\ IsFiniteSet(DOMAIN pending) /\ Cardinality(DOMAIN pending) <= MaxPending
        BY KeptAre DEF TurnsInv, TurnTypes
      <3>2. Cardinality(DOMAIN pending) \in Nat
        BY <3>1, FS_CardinalityType
      <3> QED
        BY <2>1, <3>1, <3>2, TurnsAssumption
    <2>8. HandedOK'
      <3> DEFINE c == complete(f, turn)
      <3>1. /\ c.flow = f /\ c.requests = turn.requests /\ c.documents = turn.documents
            /\ c.identity = turn.identity /\ (c.gap <=> f \in dropped) /\ c.gap \in BOOLEAN
            /\ c.request = Marked(turn.requestFailed, IF turn.requestSeen THEN "complete" ELSE "unsupported")
            /\ c.response = (IF turn.overflowed \/ turn.responseFailed THEN "partial"
                             ELSE IF turn.documents # <<>> THEN "complete" ELSE "unsupported")
            /\ c.generates = (IF turn.requestFailed THEN Unknown ELSE turn.generates)
            /\ DOMAIN c = {"flow", "requests", "documents", "identity", "request", "response", "generates",
                           "heard", "gap"}
            /\ c = [k \in DOMAIN c |-> c[k]]
        <4> DEFINE cut == f \in dropped
        <4>0. cut \in BOOLEAN
          OBVIOUS
        <4> HIDE DEF turn, h, gone
        <4>1. c = [flow |-> f, requests |-> turn.requests, documents |-> turn.documents, identity |-> turn.identity,
                   request |-> Marked(turn.requestFailed, IF turn.requestSeen THEN "complete" ELSE "unsupported"),
                   response |-> IF turn.overflowed \/ turn.responseFailed THEN "partial"
                                ELSE IF turn.documents # <<>> THEN "complete" ELSE "unsupported",
                   generates |-> IF turn.requestFailed THEN Unknown ELSE turn.generates,
                   heard |-> heard[f], gap |-> cut]
          BY DEF complete
        <4> HIDE DEF c, cut
        <4>2. (c.gap <=> f \in dropped) /\ c.gap \in BOOLEAN BY <4>0, <4>1 DEF cut
        <4>3. /\ c.flow = f /\ c.requests = turn.requests /\ c.documents = turn.documents
              /\ c.identity = turn.identity
              /\ c.request = Marked(turn.requestFailed, IF turn.requestSeen THEN "complete" ELSE "unsupported")
              /\ c.response = (IF turn.overflowed \/ turn.responseFailed THEN "partial"
                               ELSE IF turn.documents # <<>> THEN "complete" ELSE "unsupported")
              /\ c.generates = (IF turn.requestFailed THEN Unknown ELSE turn.generates)
          BY <4>1
        <4>4. /\ DOMAIN c = {"flow", "requests", "documents", "identity", "request", "response", "generates",
                             "heard", "gap"}
              /\ c = [k \in DOMAIN c |-> c[k]]
          BY <4>1
        <4> QED
          BY <4>2, <4>3, <4>4
      <3> HIDE DEF turn, h, gone, c
      <3>2. /\ e.flow = f /\ e.requests = turn.requests /\ e.documents = turn.documents
            /\ e.identity = turn.identity /\ e.heard = h /\ (e.gap <=> f \in dropped \/ f \in gone)
            /\ e.request = Marked(turn.requestFailed, IF turn.requestSeen THEN "complete" ELSE "unsupported")
            /\ e.response = (IF turn.overflowed \/ turn.responseFailed THEN "partial"
                             ELSE IF turn.documents # <<>> THEN "complete" ELSE "unsupported")
            /\ e.generates = (IF turn.requestFailed THEN Unknown ELSE turn.generates) BY <3>1 DEF c
      <3> HIDE DEF e
      <3>3. NoMixing'
        BY <1>1, <2>1, <3>2 DEF NoMixing, TurnOK, Among
      <3>4. EndsOnce'
        BY <1>3, <2>1, <2>3, <3>2 DEF EndsOnce
      <3>5. ASSUME ~e.gap
            PROVE  WholeOK(turn, h)
        BY <1>1, <3>2, <3>5
      <3>6. PrewarmOnly' BY <2>1, <3>2, <3>5 DEF WholeOK, Unknown, PrewarmOnly
      <3>7. WholeTurnExact'
        <4>1. ASSUME ~e.gap
              PROVE  /\ ToSet(turn.requests) = Asked(h)
                     /\ \A d \in ToSet(turn.documents), a \in Answered(h) : a < d => a \in ToSet(turn.documents)
                     /\ (e.response = "complete")
                            <=> ToSet(turn.documents) = Answered(h) /\ ~Bad(h, "badResponse")
                     /\ Bad(h, "badRequest") => e.request # "complete"
                     /\ \A q \in Asked(h) : turn.identity \in Asked(h) /\ turn.identity <= q
          <5>1. WholeOK(turn, h)
            BY <3>5, <4>1
          <5>2. x.n \in Answered(h) BY <1>1, <1>4, <1>6, FramesAppended DEF h
          <5>3. turn.documents = <<>> => ToSet(turn.documents) = {}
            BY DEF ToSet
          <5>4. (e.response = "complete") <=> ToSet(turn.documents) = Answered(h) /\ ~Bad(h, "badResponse")
            BY <3>2, <5>1, <5>2, <5>3 DEF WholeOK
          <5>5. Bad(h, "badRequest") => e.request # "complete"
            BY <3>2, <5>1 DEF WholeOK, Marked
          <5> QED
            BY <5>1, <5>4, <5>5 DEF WholeOK, Leading
        <4> QED
          BY <2>1, <3>2, <4>1 DEF WholeTurnExact
      <3> QED
        BY <3>3, <3>4, <3>6, <3>7 DEF HandedOK
    <2> QED
      BY <2>4, <2>5, <2>6, <2>7, <2>8 DEF TurnsInv
  <1>7. CASE ~(turn.exchange /\ turn.ended)
    <2> DEFINE R == DOMAIN Others(f)
               now == [turn EXCEPT !.at = clock, !.order = x.n]
    <2>1. /\ pending' = [g \in R \cup {f} |-> IF g = f THEN now ELSE Others(f)[g]]
          /\ handed' = Nothing
          /\ heard' = [heard EXCEPT ![f] = Append(@, x)]
          /\ dropped' = dropped \cup (DOMAIN pending \ (R \cup {f})) \cup (IF f \in gone THEN {f} ELSE {})
      BY <1>7 DEF Push, KeptTurns, TurnAt, Aside, Others
    <2>2. /\ heard' \in [Flows -> Seq(Frames)]
          /\ \A g \in Flows : Heard(heard[g])'
          /\ \A g, k \in Flows : \A m \in DOMAIN heard'[g], n \in DOMAIN heard'[k] :
                 heard'[g][m].n = heard'[k][n].n => g = k
      BY <2>1, HeardGrows
    <2>3. heard'[f] = h /\ \A g \in Flows \ {f} : heard'[g] = heard[g]
      BY <1>4, <2>1
    <2>4. /\ R \subseteq DOMAIN Aside(f)
          /\ \A g \in R : Others(f)[g] = pending[g]
          /\ IsFiniteSet(R) /\ Cardinality(R) \in Nat /\ Cardinality(R) < MaxPending
      BY RoomMade
    <2>5. R \subseteq DOMAIN pending /\ f \notin R
      BY <1>3, <2>4
    <2> HIDE DEF turn, h, gone
    <2>6. /\ now \in Turns /\ now.order = x.n /\ now.ended = turn.ended
          /\ now.requests = turn.requests /\ now.documents = turn.documents
      BY <1>1, <1>4 DEF Turns, Frames
    <2>7. TurnOK(now, h) /\ (WholeOK(turn, h) => WholeOK(now, h)) /\ ~now.ended
      BY <1>1, <1>7, <2>6 DEF TurnOK, WholeOK, Turns
    <2> HIDE DEF now, R
    <2>8. /\ DOMAIN pending' = R \cup {f} /\ pending'[f] = now
          /\ \A g \in R : pending'[g] = pending[g]
      BY <2>1, <2>4, <2>5
    <2>9. IsFiniteSet(R \cup {f}) /\ Cardinality(R \cup {f}) <= MaxPending
      <3>1. IsFiniteSet(R \cup {f}) /\ Cardinality(R \cup {f}) = Cardinality(R) + 1
        BY <2>4, <2>5, FS_AddElement
      <3> QED
        BY <2>4, <3>1, TurnsAssumption
    <2>10. TurnTypes' BY <1>4, <2>1, <2>2, <2>5, <2>6, <2>8, <2>9 DEF TurnTypes
    <2>11. HeardOK' BY <2>1, <2>2, <2>3, <2>8 DEF TurnsInv, HeardOK
    <2>12. PendingOK'
      <3>1. /\ heard'[f] # <<>> /\ LastHeard(f)' = x.n
            /\ pending'[f] = now /\ heard'[f] = h
        BY <1>2, <2>3, <2>8 DEF LastHeard
      <3>2. f \notin dropped' => WholeOK(now, h)
        BY <1>1, <2>1, <2>7
      <3>3. \A g \in R : /\ pending'[g] = pending[g] /\ heard'[g] = heard[g] /\ LastHeard(g)' = LastHeard(g)
                         /\ g \in DOMAIN pending
                         /\ g \notin dropped' => g \notin dropped
        BY <1>4, <2>1, <2>3, <2>5, <2>8 DEF LastHeard
      <3>4. \A g \in R : /\ heard'[g] # <<>> /\ pending'[g].order = LastHeard(g)'
                         /\ ~pending'[g].ended
                         /\ TurnOK(pending'[g], heard'[g])
                         /\ g \notin dropped' => WholeOK(pending'[g], heard'[g])
        BY <1>5, <3>3
      <3> QED
        BY <2>6, <2>7, <2>8, <3>1, <3>2, <3>4 DEF PendingOK
    <2>13. HandedOK'
      BY <2>1 DEF HandedOK, NoMixing, WholeTurnExact, PrewarmOnly, EndsOnce, Emitted
    <2> QED
      BY <2>8, <2>9, <2>10, <2>11, <2>12, <2>13 DEF TurnsInv
  <1> QED
    BY <1>6, <1>7

\* A step that leaves turns and history alone, and hands nothing on.
LEMMA RestInv ==
    ASSUME TurnsInv, UNCHANGED <<pending, heard>>, handed' = Nothing,
           clock' \in Nat, frames' \in Nat, frames' >= frames, observed' \in BOOLEAN,
           dropped' \subseteq Flows, dropped \subseteq dropped'
    PROVE  TurnsInv'
  <1>1. TurnTypes'
    BY DEF TurnsInv, TurnTypes
  <1>2. HeardOK' BY DEF Heard, TurnsInv, TurnTypes, HeardOK
  <1>3. PendingOK'
    BY DEF TurnsInv, PendingOK, LastHeard
  <1>4. HandedOK'
    BY DEF HandedOK, NoMixing, WholeTurnExact, PrewarmOnly, EndsOnce, Emitted
  <1> QED
    BY <1>1, <1>2, <1>3, <1>4 DEF TurnsInv

(* Nothing is pending at first. *)
LEMMA TurnsInitInv == TurnsInit => TurnsInv
  <1> SUFFICES ASSUME TurnsInit PROVE TurnsInv
    OBVIOUS
  <1>1. DOMAIN pending = {} /\ IsFiniteSet(DOMAIN pending) /\ Cardinality(DOMAIN pending) = 0
    BY FS_EmptySet DEF TurnsInit
  <1>2. TurnTypes
    BY <1>1 DEF TurnsInit, TurnTypes
  <1>3. HeardOK BY DEF TurnsInit, HeardOK, Heard
  <1>4. PendingOK
    BY <1>1 DEF PendingOK
  <1>5. HandedOK
    BY DEF TurnsInit, HandedOK, NoMixing, WholeTurnExact, PrewarmOnly, EndsOnce, Emitted
  <1> QED
    BY <1>1, <1>2, <1>3, <1>4, <1>5, TurnsAssumption DEF TurnsInv

(* A frame has the next number. *)
LEMMA FrameIs ==
    ASSUME TurnsInv, NEW kind \in FrameKinds, NEW generate \in {"yes", "no"}
    PROVE  Frame(kind, generate) \in Frames /\ Frame(kind, generate).n = frames + 1
  <1>1. frames + 1 \in Nat
    BY DEF TurnsInv, TurnTypes
  <1>2. (kind # "empty") \in BOOLEAN
    OBVIOUS
  <1>3. (IF kind = "empty" THEN "request" ELSE kind) \in Kinds
    BY DEF FrameKinds, Kinds
  <1> QED
    BY <1>1, <1>2, <1>3 DEF Frame, Frames

(* Every step of the hook keeps the invariant. *)
LEMMA TurnsNextInv == TurnsInv /\ [TurnsNext]_turnVars => TurnsInv'
  <1> SUFFICES ASSUME TurnsInv, [TurnsNext]_turnVars PROVE TurnsInv'
    OBVIOUS
  <1>0. clock \in Nat /\ frames \in Nat /\ observed \in BOOLEAN /\ dropped \subseteq Flows
    BY DEF TurnsInv, TurnTypes
  <1>1. ASSUME NEW f \in Flows, NEW x \in Frames, x.n = frames + 1, websocket_events(f, x)
        PROVE  TurnsInv' BY <1>0, <1>1, PushInv, RestInv DEF websocket_events
  <1>2. CASE \E f \in Flows, kind \in FrameKinds, generate \in {"yes", "no"} :
                /\ kind # "request" => generate = "yes"
                /\ websocket_events(f, Frame(kind, generate))
    BY <1>1, <1>2, FrameIs
  <1>3. CASE IrrelevantFrame
    BY <1>0, <1>3, RestInv DEF IrrelevantFrame
  <1>4. CASE ReplacePolicy BY <1>0, <1>4, RestInv DEF ReplacePolicy
  <1>5. CASE Tick
    BY <1>0, <1>5, RestInv DEF Tick
  <1>6. CASE UNCHANGED turnVars
    BY <1>6 DEF turnVars, TurnsInv, TurnTypes, HeardOK, Heard, PendingOK, LastHeard, HandedOK, NoMixing,
        WholeTurnExact, PrewarmOnly, EndsOnce, Emitted
  <1> QED
    BY <1>2, <1>3, <1>4, <1>5, <1>6 DEF TurnsNext

\* Only the end of a turn, its age and a full accumulator take it away.
LEMMA PushIsFair ==
    ASSUME TurnsInv, NEW f \in Flows, NEW x \in Frames, x.n = frames + 1, Push(f, x)
    PROVE  GivesUpFairly
  <1> DEFINE turn == record(TurnAt(f), x)
  <1>1. /\ DOMAIN Aside(f) = DOMAIN KeptTurns \ {f} /\ DOMAIN KeptTurns \subseteq DOMAIN pending
        /\ \A g \in DOMAIN pending \ DOMAIN KeptTurns : clock - pending[g].at > Ttl
    BY KeptAre
  <1>2. heard \in [Flows -> Seq(Frames)] /\ DOMAIN pending \subseteq Flows /\ frames \in Nat
    BY DEF TurnsInv, TurnTypes
  <1>3. CASE turn.exchange /\ turn.ended
    BY <1>1, <1>3 DEF Push, KeptTurns, TurnAt, Aside, complete, Nothing, GivesUpFairly
  <1>4. CASE ~(turn.exchange /\ turn.ended)
    <2> DEFINE R == DOMAIN Others(f)
    <2>1. DOMAIN pending' = R \cup {f} /\ heard' = [heard EXCEPT ![f] = Append(@, x)]
      BY <1>4 DEF Push, KeptTurns, TurnAt, Aside, Others
    <2>2. /\ R \subseteq DOMAIN Aside(f) /\ IsFiniteSet(R)
          /\ \A o \in DOMAIN Aside(f) \ R :
                 /\ Cardinality(R) = MaxPending - 1
                 /\ \A g \in R : pending[o].order < pending[g].order
      BY RoomMade
    <2> HIDE DEF R
    <2>3. ASSUME NEW o \in DOMAIN Aside(f) \ R
          PROVE  Cardinality({g \in DOMAIN pending' : LastHeard(g)' > pending[o].order}) >= MaxPending
      <3>1. o \in DOMAIN pending /\ pending[o].order \in 1 .. frames
        BY <1>1, <2>3, LastFrame
      <3>2. LastHeard(f)' > pending[o].order
        <4>1. heard'[f] = Append(heard[f], x) /\ heard[f] \in Seq(Frames)
          BY <1>2, <2>1
        <4>2. /\ Len(heard'[f]) = Len(heard[f]) + 1 /\ heard'[f][Len(heard[f]) + 1] = x /\ Len(heard[f]) \in Nat
              /\ Len(<<>>) = 0
          BY <4>1
        <4>3. LastHeard(f)' = frames + 1
          BY <4>2 DEF LastHeard
        <4> QED
          BY <1>2, <3>1, <4>3
      <3>3. \A g \in R : LastHeard(g)' > pending[o].order
        BY <1>1, <1>2, <2>1, <2>2, <2>3, <3>1, LastFrame DEF LastHeard, TurnsInv, PendingOK
      <3>4. {g \in DOMAIN pending' : LastHeard(g)' > pending[o].order} = R \cup {f}
        BY <2>1, <3>2, <3>3
      <3>5. f \notin R
        BY <1>1, <2>2
      <3>6. Cardinality(R \cup {f}) = Cardinality(R) + 1
        BY <2>2, <3>5, FS_AddElement
      <3>7. Cardinality(R) = MaxPending - 1
        BY <2>2, <2>3
      <3>8. Cardinality(R \cup {f}) = MaxPending /\ MaxPending >= MaxPending
        BY <3>6, <3>7, TurnsAssumption
      <3> DEFINE newer == {g \in DOMAIN pending' : LastHeard(g)' > pending[o].order}
      <3>9. newer = R \cup {f}
        BY <3>4
      <3> HIDE DEF newer
      <3>10. Cardinality(newer) >= MaxPending
        BY <3>8, <3>9
      <3> QED
        BY <3>10 DEF newer
    <2>4. \A g \in DOMAIN pending \ DOMAIN pending' :
              g \in DOMAIN pending \ DOMAIN KeptTurns \/ g \in DOMAIN Aside(f) \ R
      BY <1>1, <2>1
    <2> QED
      BY <1>1, <2>3, <2>4 DEF GivesUpFairly
  <1> QED
    BY <1>3, <1>4

(* Every step of the hook gives turns up fairly. *)
LEMMA TurnsNextFair == TurnsInv /\ [TurnsNext]_turnVars => [GivesUpFairly]_turnVars
  <1> SUFFICES ASSUME TurnsInv, [TurnsNext]_turnVars PROVE [GivesUpFairly]_turnVars
    OBVIOUS
  <1>1. CASE UNCHANGED turnVars
    BY <1>1
  <1>2. CASE pending' = pending
    BY <1>2 DEF GivesUpFairly
  <1>3. CASE \E f \in Flows, kind \in FrameKinds, generate \in {"yes", "no"} :
                /\ kind # "request" => generate = "yes"
                /\ websocket_events(f, Frame(kind, generate))
    BY <1>2, <1>3, FrameIs, PushIsFair DEF websocket_events
  <1> QED
    BY <1>1, <1>2, <1>3 DEF TurnsNext, IrrelevantFrame, ReplacePolicy, Tick

\* A WebSocket turn is told once, whole or marked, in order and only of its
\* own frames, and is given up only for its age or for enough newer ones
\* (responses/websocket.rs), for any flows, limits and frames.
THEOREM TurnsTold == TurnsSpec => TurnsFaithful
  <1>1. TurnsInit => TurnsInv
    BY TurnsInitInv
  <1>2. TurnsInv /\ [TurnsNext]_turnVars => TurnsInv'
    BY TurnsNextInv
  <1>3. TurnsInv /\ [TurnsNext]_turnVars => [GivesUpFairly]_turnVars
    BY TurnsNextFair
  <1>4. TurnsInv => NoMixing /\ WholeTurnExact /\ PrewarmOnly /\ Bounded /\ EndsOnce
    BY DEF TurnsInv, HandedOK, Bounded, PendingOK, TurnOK
  <1> QED
    BY <1>1, <1>2, <1>3, <1>4, PTL DEF TurnsSpec, TurnsFaithful

-----------------------------------------------------------------------------
(* UploadContext: the queue lists the cache by age and the byte count is the *)
(* sum of what is cached.                                                    *)

(* The element a fold takes next. *)
Pick(T) == CHOOSE x \in T : TRUE

(* One step of the sum of w over T, from the sums g of smaller sets. *)
FoldStep(w, g, T) == IF T = {} THEN 0 ELSE w[Pick(T)] + g[T \ {Pick(T)}]

(* g is the recursive function Total is defined by, on the sets of D. *)
IsFold(w, g, D) == g = [T \in D |-> FoldStep(w, g, T)]

(* The sum of w over S. *)
FoldOf(w, S) == (CHOOSE g : IsFold(w, g, SUBSET S))[S]

(* The subsets of S with at most n elements. *)
UpTo(S, n) == {T \in SUBSET S : Cardinality(T) <= n}

(* Total is the sum of a function over its domain. *)
LEMMA TotalIs == ASSUME NEW s PROVE Total(s) = FoldOf(s, DOMAIN s)
BY Zenon DEF Total, FoldFunction, FoldFunctionOnSet, MapThenFoldSet, FoldOf, IsFold, FoldStep, Pick

(* A set without one of its elements is smaller by one. *)
LEMMA PickOne == ASSUME NEW S, IsFiniteSet(S), NEW T \in SUBSET S, T # {}, NEW x \in T
                 PROVE  /\ Pick(T) \in T /\ IsFiniteSet(T) /\ T \ {x} \in SUBSET S
                        /\ Cardinality(T) \in Nat /\ Cardinality(T \ {x}) \in Nat
                        /\ Cardinality(T \ {x}) = Cardinality(T) - 1
<1>1. Pick(T) \in T BY DEF Pick
<1>2. IsFiniteSet(T) BY FS_Subset
<1>3. /\ IsFiniteSet(T \ {x}) /\ Cardinality(T \ {x}) = Cardinality(T) - 1 BY <1>2, FS_RemoveElement
<1> QED BY <1>1, <1>2, <1>3, FS_CardinalityType

(* The recursive function exists, by the least size for which it would not. *)
LEMMA FoldExists ==
    ASSUME NEW w, NEW S, IsFiniteSet(S)
    PROVE  \E g : IsFold(w, g, SUBSET S)
<1> DEFINE B == {n \in Nat : ~ \E g : IsFold(w, g, UpTo(S, n))}
<1>1. B = {}
  <2> SUFFICES ASSUME B # {} PROVE FALSE OBVIOUS
  <2>1. PICK n \in B : \A y \in B : n <= y BY LeastNatural
  <2>2. n \in Nat /\ ~ \E g : IsFold(w, g, UpTo(S, n)) BY <2>1
  <2>3. PICK f : n = 0 \/ IsFold(w, f, UpTo(S, n - 1)) BY <2>1, <2>2
  <2> DEFINE g == [T \in UpTo(S, n) |-> FoldStep(w, f, T)]
  <2>4. \A T \in UpTo(S, n) : FoldStep(w, f, T) = FoldStep(w, g, T)
    <3> SUFFICES ASSUME NEW T \in UpTo(S, n), T # {} PROVE FoldStep(w, f, T) = FoldStep(w, g, T)
      BY DEF FoldStep
    <3> DEFINE U == T \ {Pick(T)}
    <3>1. T \in SUBSET S /\ Cardinality(T) <= n BY DEF UpTo
    <3>2. Pick(T) \in T BY DEF Pick
    <3>3. U \in SUBSET S /\ Cardinality(U) \in Nat /\ Cardinality(U) = Cardinality(T) - 1 /\ Cardinality(T) \in Nat
      BY <3>1, <3>2, PickOne
    <3>4. n # 0 /\ U \in UpTo(S, n - 1) /\ U \in UpTo(S, n) BY <2>2, <3>1, <3>3 DEF UpTo
    <3>5. f[U] = FoldStep(w, f, U) BY <2>3, <3>4 DEF IsFold
    <3>6. g[U] = FoldStep(w, f, U) BY <3>4
    <3> QED BY <3>5, <3>6 DEF FoldStep
  <2>5. g = [T \in UpTo(S, n) |-> FoldStep(w, g, T)] BY <2>4
  <2> QED BY <2>2, <2>5 DEF IsFold
<1>2. Cardinality(S) \in Nat BY FS_CardinalityType
<1>3. UpTo(S, Cardinality(S)) = SUBSET S BY FS_Subset DEF UpTo
<1>4. \E g : IsFold(w, g, UpTo(S, Cardinality(S))) BY <1>1, <1>2, Zenon
<1> QED BY <1>3, <1>4, Zenon

(* w and v agree on S. *)
SameOn(w, v, S) == \A x \in S : w[x] = v[x]

(* R is S and one more element. *)
AddsOne(R, S, x) == x \notin S /\ R = S \cup {x}

(* The sum over R is the sum over S and the value of the new element. *)
OneMore(w, S, v, R, x) == FoldOf(w, S) \in Nat /\ FoldOf(v, R) = FoldOf(w, S) + v[x]

(* w is a natural number on S. *)
NatOn(w, S) == \A x \in S : w[x] \in Nat

(* Two such functions agree where their weights do. *)
LEMMA FoldsAgree ==
    ASSUME NEW w, NEW S, NEW v, NEW R, IsFiniteSet(S), S \in SUBSET R, SameOn(w, v, S)
    PROVE  \A f, g : IsFold(w, f, SUBSET S) /\ IsFold(v, g, SUBSET R) => f[S] = g[S]
<1> SUFFICES ASSUME NEW f, NEW g, IsFold(w, f, SUBSET S), IsFold(v, g, SUBSET R) PROVE f[S] = g[S] OBVIOUS
<1> DEFINE B == {n \in Nat : \E T \in SUBSET S : Cardinality(T) = n /\ f[T] # g[T]}
<1>1. B = {}
  <2> SUFFICES ASSUME B # {} PROVE FALSE OBVIOUS
  <2>1. PICK n \in B : \A y \in B : n <= y BY LeastNatural
  <2>2. PICK T \in SUBSET S : Cardinality(T) = n /\ f[T] # g[T] BY <2>1
  <2>3. f[T] = FoldStep(w, f, T) /\ g[T] = FoldStep(v, g, T) BY DEF IsFold
  <2>4. T # {} BY <2>2, <2>3 DEF FoldStep
  <2> DEFINE U == T \ {Pick(T)}
  <2>5. Pick(T) \in T BY <2>4 DEF Pick
  <2>6. U \in SUBSET S /\ Cardinality(U) \in Nat /\ Cardinality(U) = Cardinality(T) - 1 /\ Cardinality(T) \in Nat
    BY <2>4, <2>5, PickOne
  <2>7. Cardinality(U) \notin B BY <2>1, <2>2, <2>6
  <2>8. f[U] = g[U] BY <2>6, <2>7
  <2>9. w[Pick(T)] = v[Pick(T)] BY <2>5 DEF SameOn
  <2> QED BY <2>2, <2>3, <2>4, <2>8, <2>9 DEF FoldStep
<1> QED BY <1>1, FS_CardinalityType

(* A sum of naturals is a natural. *)
LEMMA FoldNatural ==
    ASSUME NEW w, NEW f, NEW S, IsFiniteSet(S), IsFold(w, f, SUBSET S), \A x \in S : w[x] \in Nat
    PROVE  \A T \in SUBSET S : f[T] \in Nat
<1> DEFINE B == {n \in Nat : \E T \in SUBSET S : Cardinality(T) = n /\ f[T] \notin Nat}
<1>1. B = {}
  <2> SUFFICES ASSUME B # {} PROVE FALSE OBVIOUS
  <2>1. PICK n \in B : \A y \in B : n <= y BY LeastNatural
  <2>2. PICK T \in SUBSET S : Cardinality(T) = n /\ f[T] \notin Nat BY <2>1
  <2>3. f[T] = FoldStep(w, f, T) BY DEF IsFold
  <2>4. T # {} BY <2>2, <2>3 DEF FoldStep
  <2> DEFINE U == T \ {Pick(T)}
  <2>5. Pick(T) \in T BY <2>4 DEF Pick
  <2>6. U \in SUBSET S /\ Cardinality(U) \in Nat /\ Cardinality(U) = Cardinality(T) - 1 /\ Cardinality(T) \in Nat
    BY <2>4, <2>5, PickOne
  <2>10. ~ (n <= Cardinality(U)) BY <2>2, <2>6
  <2>7. Cardinality(U) \notin B BY <2>1, <2>10, Zenon
  <2>8. f[U] \in Nat BY <2>6, <2>7
  <2>9. w[Pick(T)] \in Nat BY <2>5
  <2> QED BY <2>2, <2>3, <2>4, <2>8, <2>9 DEF FoldStep
<1> QED BY <1>1, FS_Subset, FS_CardinalityType

(* A sum does not depend on the element that is taken first. *)
LEMMA FoldAnyOrder ==
    ASSUME NEW w, NEW f, NEW S, IsFiniteSet(S), IsFold(w, f, SUBSET S), \A x \in S : w[x] \in Nat
    PROVE  \A T \in SUBSET S : \A x \in T : f[T] = w[x] + f[T \ {x}]
<1>0. \A T \in SUBSET S : f[T] \in Nat BY FoldNatural
<1> DEFINE B == {n \in Nat : \E T \in SUBSET S : \E x \in T : Cardinality(T) = n /\ f[T] # w[x] + f[T \ {x}]}
<1>1. B = {}
  <2> SUFFICES ASSUME B # {} PROVE FALSE OBVIOUS
  <2>1. PICK n \in B : \A y \in B : n <= y BY LeastNatural
  <2>2. PICK T \in SUBSET S : \E x \in T : Cardinality(T) = n /\ f[T] # w[x] + f[T \ {x}] BY <2>1
  <2>3. PICK x \in T : Cardinality(T) = n /\ f[T] # w[x] + f[T \ {x}] BY <2>2
  <2> DEFINE c == Pick(T)
  <2>4. f[T] = w[c] + f[T \ {c}] BY DEF IsFold, FoldStep
  <2>5. c \in T BY DEF Pick
  <2> HIDE DEF c
  <2>6. c # x BY <2>3, <2>4
  <2>7. /\ T \ {x} \in SUBSET S /\ Cardinality(T \ {x}) \in Nat /\ Cardinality(T \ {x}) = Cardinality(T) - 1
        /\ T \ {c} \in SUBSET S /\ Cardinality(T \ {c}) \in Nat /\ Cardinality(T \ {c}) = Cardinality(T) - 1
        /\ Cardinality(T) \in Nat
    BY <2>5, PickOne
  <2>13. ~ (n <= Cardinality(T \ {x})) /\ ~ (n <= Cardinality(T \ {c})) BY <2>3, <2>7
  <2>8. Cardinality(T \ {x}) \notin B /\ Cardinality(T \ {c}) \notin B BY <2>1, <2>13, Zenon
  <2>9. f[T \ {c}] = w[x] + f[(T \ {c}) \ {x}] BY <2>5, <2>6, <2>7, <2>8
  <2>10. f[T \ {x}] = w[c] + f[(T \ {x}) \ {c}] BY <2>5, <2>6, <2>7, <2>8
  <2>11. (T \ {x}) \ {c} = (T \ {c}) \ {x} /\ (T \ {c}) \ {x} \in SUBSET S OBVIOUS
  <2>12. w[x] \in Nat /\ w[c] \in Nat /\ f[(T \ {c}) \ {x}] \in Nat BY <1>0, <2>5, <2>11
  <2>14. f[(T \ {x}) \ {c}] = f[(T \ {c}) \ {x}] BY <2>11
  <2>15. w[c] + (w[x] + f[(T \ {c}) \ {x}]) = w[x] + (w[c] + f[(T \ {c}) \ {x}]) BY <2>12
  <2> QED BY <2>3, <2>4, <2>9, <2>10, <2>14, <2>15, Zenon
<1> QED
  <2> SUFFICES ASSUME NEW T \in SUBSET S, NEW x \in T PROVE f[T] = w[x] + f[T \ {x}] OBVIOUS
  <2>1. IsFiniteSet(T) /\ Cardinality(T) \in Nat BY FS_Subset, FS_CardinalityType
  <2> QED BY <1>1, <2>1

(* The sum over S is given by some such function. *)
LEMMA FoldIs ==
    ASSUME NEW w, NEW S, IsFiniteSet(S)
    PROVE  \E g : IsFold(w, g, SUBSET S) /\ FoldOf(w, S) = g[S]
<1>1. IsFold(w, CHOOSE g : IsFold(w, g, SUBSET S), SUBSET S) BY FoldExists
<1> QED BY <1>1, Zenon DEF FoldOf

(* A sum over one more element is larger by its value. *)
LEMMA FoldOneMore ==
    ASSUME NEW S, IsFiniteSet(S), NEW w, NEW v, NEW x, NEW R, AddsOne(R, S, x), SameOn(w, v, S), NatOn(v, R)
    PROVE  OneMore(w, S, v, R, x)
<1>0. R = S \cup {x} /\ x \notin S BY DEF AddsOne
<1>1. IsFiniteSet(R) /\ S \subseteq R /\ R \ {x} = S BY <1>0, FS_AddElement
<1>2. PICK F : IsFold(w, F, SUBSET S) /\ FoldOf(w, S) = F[S] BY FoldIs
<1>3. PICK G : IsFold(v, G, SUBSET R) /\ FoldOf(v, R) = G[R] BY <1>1, FoldIs
<1>4. S \in SUBSET R /\ SameOn(w, v, S) /\ v[x] \in Nat /\ \A y \in R : v[y] \in Nat BY <1>0, <1>1 DEF NatOn
<1>9. IsFold(w, F, SUBSET S) /\ IsFold(v, G, SUBSET R) BY <1>2, <1>3, Zenon
<1>5. F[S] = G[S] BY <1>4, <1>9, FoldsAgree
<1>6. F[S] \in Nat BY <1>1, <1>2, <1>4, FoldNatural DEF SameOn
<1>7. G[R] = v[x] + G[R \ {x}] BY <1>0, <1>1, <1>3, <1>4, FoldAnyOrder
<1>8. v[x] + F[S] = F[S] + v[x] BY <1>4, <1>6
<1> QED BY <1>0, <1>1, <1>2, <1>3, <1>5, <1>6, <1>7, <1>8, Zenon DEF OneMore

(* The sum over nothing is 0. *)
LEMMA FoldNone == ASSUME NEW w PROVE FoldOf(w, {}) = 0
<1> DEFINE F == CHOOSE g : IsFold(w, g, SUBSET {})
<1>1. IsFold(w, F, SUBSET {}) BY FS_EmptySet, FoldExists
<1>2. FoldOf(w, {}) = F[{}] BY Zenon DEF FoldOf
<1> HIDE DEF F
<1> QED BY <1>1, <1>2 DEF IsFold, FoldStep

(* f solves the recursion that starts with a and goes on by G. *)
Solution(f, V, a, N, G) ==
    f \in [0 .. N -> V] /\ f[0] = a /\ \A n \in 1 .. N : f[n] = G[<<n, f[n - 1]>>]

(* A recursion over the positions of a list has a solution. *)
LEMMA RecursionExists ==
    ASSUME NEW V, NEW a \in V, NEW N \in Nat, NEW G \in [(1 .. N) \X V -> V]
    PROVE  \E f : Solution(f, V, a, N, G)
<1> DEFINE Solves(f, m) == f \in [0 .. m -> V] /\ f[0] = a /\ \A n \in 1 .. m : f[n] = G[<<n, f[n - 1]>>]
           B == {m \in 0 .. N : ~ \E f : Solves(f, m)}
<1>1. B = {}
  <2> SUFFICES ASSUME B # {} PROVE FALSE OBVIOUS
  <2>1. PICK m \in B : \A y \in B : m <= y
    <3>1. B \subseteq Nat OBVIOUS
    <3> HIDE DEF B
    <3> QED BY <3>1, LeastNatural
  <2>2. m \in 0 .. N /\ ~ \E f : Solves(f, m) BY <2>1
  <2>3. CASE m = 0
    <3> DEFINE z == [i \in 0 .. 0 |-> a]
    <3>1. z \in [0 .. 0 -> V] /\ z[0] = a OBVIOUS
    <3>2. Solves(z, 0) BY <3>1
    <3> QED BY <2>2, <2>3, <3>2
  <2>4. CASE m # 0
    <3>1. m - 1 \in 0 .. N /\ ~ (m <= m - 1) BY <2>2, <2>4
    <3>2. m - 1 \notin B BY <2>1, <3>1
    <3>3. PICK f : Solves(f, m - 1) BY <3>1, <3>2
    <3> DEFINE g == [i \in 0 .. m |-> IF i = m THEN G[<<m, f[m - 1]>>] ELSE f[i]]
    <3>4. f[m - 1] \in V /\ m \in 1 .. N BY <2>2, <2>4, <3>1, <3>3
    <3>5. g \in [0 .. m -> V] BY <2>2, <3>3, <3>4
    <3>6. g[0] = a BY <2>2, <2>4, <3>3
    <3>7. \A n \in 1 .. m : g[n] = G[<<n, g[n - 1]>>]
      <4> SUFFICES ASSUME NEW n \in 1 .. m PROVE g[n] = G[<<n, g[n - 1]>>] OBVIOUS
      <4>1. n - 1 \in 0 .. m /\ n - 1 # m /\ n \in 0 .. m BY <2>2
      <4>2. g[n - 1] = f[n - 1] BY <4>1
      <4>3. CASE n = m BY <4>1, <4>2, <4>3
      <4>4. CASE n # m BY <2>2, <3>3, <4>1, <4>2, <4>4
      <4> QED BY <4>3, <4>4
    <3> HIDE DEF g
    <3>8. Solves(g, m) BY <3>5, <3>6, <3>7
    <3> QED BY <2>2, <3>8
  <2> QED BY <2>3, <2>4
<1>2. N \in 0 .. N OBVIOUS
<1>3. \E f : Solves(f, N) BY <1>1, <1>2
<1> QED BY <1>3 DEF Solution

(* Every solution has values of the recursion's kind. *)
LEMMA RecursionTyped ==
    ASSUME NEW V, NEW a \in V, NEW N \in Nat, NEW G \in [(1 .. N) \X V -> V],
           NEW h, h[0] = a, \A n \in 1 .. N : h[n - 1] \in V => h[n] = G[<<n, h[n - 1]>>]
    PROVE  \A n \in 0 .. N : h[n] \in V
<1> DEFINE B == {n \in 0 .. N : h[n] \notin V}
<1>1. B = {}
  <2> SUFFICES ASSUME B # {} PROVE FALSE OBVIOUS
  <2>1. PICK m \in B : \A y \in B : m <= y
    <3>1. B \subseteq Nat OBVIOUS
    <3> HIDE DEF B
    <3> QED BY <3>1, LeastNatural
  <2>2. m \in 0 .. N /\ h[m] \notin V BY <2>1
  <2>3. m # 0 BY <2>2
  <2>4. m \in 1 .. N /\ m - 1 \in 0 .. N /\ ~ (m <= m - 1) BY <2>2, <2>3
  <2>5. h[m - 1] \in V BY <2>1, <2>4
  <2>6. <<m, h[m - 1]>> \in (1 .. N) \X V BY <2>4, <2>5
  <2>7. G[<<m, h[m - 1]>>] \in V BY <2>6
  <2> QED BY <2>2, <2>4, <2>5, <2>7
<1> QED BY <1>1

(* What the cache and a completion are made of. *)
Images == [size : 1 .. MaxImageBytes, at : Nat, n : Nat]
Maps == UNION {[S -> Images] : S \in SUBSET Keys}
Caches == [up : Maps, order : Seq(Keys), bytes : Int]
Attachments == [key : Keys, n : Nat, size : 1 .. MaxImageBytes, age : Int]
Gathered == [images : Seq(Attachments), bytes : Nat, seen : SUBSET Keys]

(* A map of images by key. *)
LEMMA MapIs == ASSUME NEW u PROVE u \in Maps <=> DOMAIN u \subseteq Keys /\ u \in [DOMAIN u -> Images]
BY DEF Maps

(* The cache without a key. *)
LEMMA RemovedIs ==
    ASSUME NEW c \in Caches, NEW key
    PROVE  /\ RemoveKey(c, key) \in Caches /\ RemoveKey(c, key).order = c.order
           /\ DOMAIN RemoveKey(c, key).up = DOMAIN c.up \ {key}
           /\ \A k \in DOMAIN c.up \ {key} : RemoveKey(c, key).up[k] = c.up[k]
           /\ RemoveKey(c, key).bytes = IF key \in DOMAIN c.up THEN c.bytes - c.up[key].size ELSE c.bytes
<1>0. c.up \in Maps /\ c.order \in Seq(Keys) /\ c.bytes \in Int BY DEF Caches
<1>1. DOMAIN c.up \subseteq Keys /\ \A k \in DOMAIN c.up : c.up[k] \in Images BY <1>0, MapIs
<1>2. CASE key \in DOMAIN c.up
  <2> DEFINE u == [k \in DOMAIN c.up \ {key} |-> c.up[k]]
             b == c.bytes - c.up[key].size
  <2>1. RemoveKey(c, key) = [c EXCEPT !.up = u, !.bytes = b] BY <1>2 DEF RemoveKey
  <2>2. DOMAIN u = DOMAIN c.up \ {key} /\ \A k \in DOMAIN c.up \ {key} : u[k] = c.up[k] OBVIOUS
  <2>3. u \in Maps BY <1>1, MapIs
  <2>4. b \in Int BY <1>0, <1>1, <1>2, UploadAssumption DEF Images
  <2> HIDE DEF u, b
  <2>5. RemoveKey(c, key) \in Caches /\ RemoveKey(c, key).up = u /\ RemoveKey(c, key).bytes = b
        /\ RemoveKey(c, key).order = c.order
    BY <1>0, <2>1, <2>3, <2>4 DEF Caches
  <2> QED BY <1>2, <2>2, <2>5 DEF b
<1>3. CASE key \notin DOMAIN c.up BY <1>3 DEF RemoveKey
<1> QED BY <1>2, <1>3

(* The cache without the front of its queue. *)
LEMMA PoppedIs ==
    ASSUME NEW c \in Caches
    PROVE  /\ PopFront(c) \in Caches
           /\ c.order = <<>> => PopFront(c) = c
           /\ c.order # <<>> =>
                LET p == PopFront(c)
                    key == Head(c.order)
                IN  /\ p.order = Tail(c.order)
                    /\ DOMAIN p.up = DOMAIN c.up \ {key}
                    /\ \A k \in DOMAIN c.up \ {key} : p.up[k] = c.up[k]
                    /\ p.bytes = IF key \in DOMAIN c.up THEN c.bytes - c.up[key].size ELSE c.bytes
<1>1. CASE c.order = <<>> BY <1>1 DEF PopFront
<1>2. CASE c.order # <<>>
  <2> DEFINE d == [c EXCEPT !.order = Tail(c.order)]
  <2>1. c.order \in Seq(Keys) /\ Tail(c.order) \in Seq(Keys) BY <1>2 DEF Caches
  <2>2. d \in Caches /\ d.order = Tail(c.order) /\ d.up = c.up /\ d.bytes = c.bytes BY <2>1 DEF Caches
  <2>3. PopFront(c) = RemoveKey(d, Head(c.order)) BY <1>2 DEF PopFront
  <2> HIDE DEF d
  <2> QED BY <1>2, <2>2, <2>3, RemovedIs
<1> QED BY <1>1, <1>2

(* The recursive functions, unfolded. *)
IsPops(c, f) == f = [n \in 0 .. Len(c.order) |-> IF n = 0 THEN c ELSE PopFront(f[n - 1])]
(* Pops, unfolded. *)
LEMMA PopsSteps ==
    ASSUME NEW c \in Caches
    PROVE  /\ Pops(c) \in [0 .. Len(c.order) -> Caches] /\ Pops(c)[0] = c
           /\ \A n \in 1 .. Len(c.order) : Pops(c)[n] = PopFront(Pops(c)[n - 1])
<1> DEFINE N == Len(c.order)
           G == [p \in (1 .. N) \X Caches |-> PopFront(p[2])]
<1>1. N \in Nat BY DEF Caches
<1>2. G \in [(1 .. N) \X Caches -> Caches] BY PoppedIs
<1>3. \A n \in 1 .. N, v \in Caches : G[<<n, v>>] = PopFront(v) OBVIOUS
<1> HIDE DEF G
<1>4. PICK f : Solution(f, Caches, c, N, G)
  <2> HIDE DEF N
  <2> QED BY <1>1, <1>2, RecursionExists
<1>5. \A n \in 1 .. N : n - 1 \in 0 .. N BY <1>1
<1>6. \A n \in 1 .. N : f[n] = PopFront(f[n - 1]) BY <1>3, <1>4, <1>5 DEF Solution
<1>7. IsPops(c, f) BY <1>1, <1>4, <1>6 DEF Solution, IsPops
<1>8. IsPops(c, CHOOSE h : IsPops(c, h)) BY <1>7, Zenon
<1>9. Pops(c) = CHOOSE h : IsPops(c, h) BY Zenon DEF Pops, IsPops
<1>10. IsPops(c, Pops(c)) BY <1>8, <1>9, Zenon
<1>11. PICK h : h = Pops(c) OBVIOUS
<1>12. h = [n \in 0 .. N |-> IF n = 0 THEN c ELSE PopFront(h[n - 1])] BY <1>10, <1>11, Zenon DEF IsPops
<1>13. h[0] = c /\ \A n \in 1 .. N : h[n] = PopFront(h[n - 1]) BY <1>1, <1>12
<1>14. \A n \in 0 .. N : h[n] \in Caches
  <2>1. \A n \in 1 .. N : h[n - 1] \in Caches => h[n] = G[<<n, h[n - 1]>>] BY <1>3, <1>13
  <2> HIDE DEF N
  <2> QED BY <1>1, <1>2, <1>13, <2>1, RecursionTyped
<1>15. h \in [0 .. N -> Caches] BY <1>12, <1>14
<1> QED BY <1>11, <1>13, <1>15

(* One file more keeps what is gathered what it is. *)
LEMMA AttachOneTyped ==
    ASSUME NEW c \in Caches, NEW key \in Keys, NEW own, NEW v \in Gathered, uploadClock \in Nat
    PROVE  AttachOne(c, key, own, v) \in Gathered
<1>1. v.images \in Seq(Attachments) /\ v.bytes \in Nat /\ v.seen \in SUBSET Keys BY DEF Gathered
<1>2. CASE key \notin DOMAIN c.up \/ AttachOne(c, key, own, v) = v BY <1>2 DEF AttachOne
<1>3. CASE AttachOne(c, key, own, v) = [v EXCEPT !.seen = @ \cup {key}]
  BY <1>1, <1>3 DEF Gathered
<1>4. CASE /\ key \in DOMAIN c.up
           /\ AttachOne(c, key, own, v) =
                [images |-> Append(v.images, [key |-> key, n |-> c.up[key].n, size |-> c.up[key].size,
                                              age |-> uploadClock - c.up[key].at]),
                 bytes |-> v.bytes + c.up[key].size, seen |-> v.seen \cup {key}]
  <2> DEFINE i == [key |-> key, n |-> c.up[key].n, size |-> c.up[key].size, age |-> uploadClock - c.up[key].at]
  <2>1. c.up[key] \in Images BY <1>4, MapIs DEF Caches
  <2>2. c.up[key].size \in 1 .. MaxImageBytes /\ c.up[key].n \in Nat /\ c.up[key].at \in Nat BY <2>1 DEF Images
  <2>3. i \in Attachments BY <2>2 DEF Attachments
  <2> HIDE DEF i
  <2>4. Append(v.images, i) \in Seq(Attachments) BY <1>1, <2>3
  <2>5. v.bytes + c.up[key].size \in Nat BY <1>1, <2>2, UploadAssumption
  <2>6. v.seen \cup {key} \in SUBSET Keys BY <1>1
  <2>7. AttachOne(c, key, own, v) =
          [images |-> Append(v.images, i), bytes |-> v.bytes + c.up[key].size, seen |-> v.seen \cup {key}]
    BY <1>4 DEF i
  <2> QED BY <2>4, <2>5, <2>6, <2>7 DEF Gathered
<1> QED BY <1>2, <1>3, <1>4 DEF AttachOne

(* Retain, unfolded: h is the list after each place. *)
RetainStep(order, key, n, v) == IF order[n] = key THEN v ELSE Append(v, order[n])
IsRetain(order, key, f) == f = [n \in 0 .. Len(order) |-> IF n = 0 THEN <<>> ELSE RetainStep(order, key, n, f[n - 1])]
(* Its steps. *)
LEMMA RetainSteps ==
    ASSUME NEW order \in Seq(Keys), NEW key
    PROVE  \E h : /\ Retain(order, key) = h[Len(order)] /\ h[0] = <<>>
                  /\ \A n \in 0 .. Len(order) : h[n] \in Seq(Keys)
                  /\ \A n \in 1 .. Len(order) : h[n] = RetainStep(order, key, n, h[n - 1])
<1> DEFINE N == Len(order)
           a == <<>>
           V == Seq(Keys)
           G == [p \in (1 .. N) \X V |-> RetainStep(order, key, p[1], p[2])]
<1>1. N \in Nat /\ a \in V OBVIOUS
<1>2. G \in [(1 .. N) \X V -> V] BY DEF RetainStep
<1>3. \A n \in 1 .. N, v \in V : G[<<n, v>>] = RetainStep(order, key, n, v) OBVIOUS
<1> HIDE DEF G, V, a
<1>4. PICK f : Solution(f, V, a, N, G)
  <2> HIDE DEF N
  <2> QED BY <1>1, <1>2, RecursionExists
<1>5. \A n \in 1 .. N : n - 1 \in 0 .. N BY <1>1
<1>6. \A n \in 1 .. N : f[n] = RetainStep(order, key, n, f[n - 1]) BY <1>3, <1>4, <1>5 DEF Solution
<1>7. IsRetain(order, key, f) BY <1>1, <1>4, <1>6 DEF Solution, IsRetain, a
<1>8. IsRetain(order, key, CHOOSE h : IsRetain(order, key, h)) BY <1>7, Zenon
<1>9. Retain(order, key) = (CHOOSE h : IsRetain(order, key, h))[N] BY Zenon DEF Retain, IsRetain, RetainStep
<1>10. PICK h : h = CHOOSE f1 : IsRetain(order, key, f1) OBVIOUS
<1>11. Retain(order, key) = h[N] /\ IsRetain(order, key, h) BY <1>8, <1>9, <1>10, Zenon
<1>12. h = [n \in 0 .. N |-> IF n = 0 THEN a ELSE RetainStep(order, key, n, h[n - 1])] BY <1>11, Zenon DEF IsRetain, a
<1>13. h[0] = a /\ \A n \in 1 .. N : h[n] = RetainStep(order, key, n, h[n - 1]) BY <1>1, <1>12
<1>14. \A n \in 0 .. N : h[n] \in V
  <2>1. \A n \in 1 .. N : h[n - 1] \in V => h[n] = G[<<n, h[n - 1]>>] BY <1>3, <1>13
  <2> HIDE DEF N
  <2> QED BY <1>1, <1>2, <1>13, <2>1, RecursionTyped
<1> QED BY <1>11, <1>13, <1>14, Zenon DEF a, V

(* OwnImages, unfolded. *)
OwnStep(inline, n, v) == push_base64(v, inline[n])
IsOwn(inline, f) == f = [n \in 0 .. Len(inline) |-> IF n = 0 THEN <<>> ELSE OwnStep(inline, n, f[n - 1])]
(* Its steps. *)
LEMMA OwnSteps ==
    ASSUME NEW inline \in Seq(Nat)
    PROVE  \E h : /\ OwnImages(inline) = h[Len(inline)] /\ h[0] = <<>>
                  /\ \A n \in 0 .. Len(inline) : h[n] \in Seq(Nat)
                  /\ \A n \in 1 .. Len(inline) : h[n] = OwnStep(inline, n, h[n - 1])
<1> DEFINE N == Len(inline)
           a == <<>>
           V == Seq(Nat)
           G == [p \in (1 .. N) \X V |-> OwnStep(inline, p[1], p[2])]
<1>1. N \in Nat /\ a \in V OBVIOUS
<1>2. G \in [(1 .. N) \X V -> V] BY DEF OwnStep, push_base64
<1>3. \A n \in 1 .. N, v \in V : G[<<n, v>>] = OwnStep(inline, n, v) OBVIOUS
<1> HIDE DEF G, V, a
<1>4. PICK f : Solution(f, V, a, N, G)
  <2> HIDE DEF N
  <2> QED BY <1>1, <1>2, RecursionExists
<1>5. \A n \in 1 .. N : n - 1 \in 0 .. N BY <1>1
<1>6. \A n \in 1 .. N : f[n] = OwnStep(inline, n, f[n - 1]) BY <1>3, <1>4, <1>5 DEF Solution
<1>7. IsOwn(inline, f) BY <1>1, <1>4, <1>6 DEF Solution, IsOwn, a
<1>8. IsOwn(inline, CHOOSE h : IsOwn(inline, h)) BY <1>7, Zenon
<1>9. OwnImages(inline) = (CHOOSE h : IsOwn(inline, h))[N] BY Zenon DEF OwnImages, IsOwn, OwnStep
<1>10. PICK h : h = CHOOSE f1 : IsOwn(inline, f1) OBVIOUS
<1>11. OwnImages(inline) = h[N] /\ IsOwn(inline, h) BY <1>8, <1>9, <1>10, Zenon
<1>12. h = [n \in 0 .. N |-> IF n = 0 THEN a ELSE OwnStep(inline, n, h[n - 1])] BY <1>11, Zenon DEF IsOwn, a
<1>13. h[0] = a /\ \A n \in 1 .. N : h[n] = OwnStep(inline, n, h[n - 1]) BY <1>1, <1>12
<1>14. \A n \in 0 .. N : h[n] \in V
  <2>1. \A n \in 1 .. N : h[n - 1] \in V => h[n] = G[<<n, h[n - 1]>>] BY <1>3, <1>13
  <2> HIDE DEF N
  <2> QED BY <1>1, <1>2, <1>13, <2>1, RecursionTyped
<1> QED BY <1>11, <1>13, <1>14, Zenon DEF a, V

(* claude_web_file_uuids, unfolded. *)
NamesStep(files, n, v) == IF files[n] \in ToSet(v) THEN v ELSE Append(v, files[n])
IsNames(files, f) == f = [n \in 0 .. Len(files) |-> IF n = 0 THEN <<>> ELSE NamesStep(files, n, f[n - 1])]
(* Its steps. *)
LEMMA NamesSteps ==
    ASSUME NEW files \in Seq(Files)
    PROVE  \E h : /\ claude_web_file_uuids(files) = h[Len(files)] /\ h[0] = <<>>
                  /\ \A n \in 0 .. Len(files) : h[n] \in Seq(Files)
                  /\ \A n \in 1 .. Len(files) : h[n] = NamesStep(files, n, h[n - 1])
<1> DEFINE N == Len(files)
           a == <<>>
           V == Seq(Files)
           G == [p \in (1 .. N) \X V |-> NamesStep(files, p[1], p[2])]
<1>1. N \in Nat /\ a \in V OBVIOUS
<1>2. G \in [(1 .. N) \X V -> V] BY DEF NamesStep
<1>3. \A n \in 1 .. N, v \in V : G[<<n, v>>] = NamesStep(files, n, v) OBVIOUS
<1> HIDE DEF G, V, a
<1>4. PICK f : Solution(f, V, a, N, G)
  <2> HIDE DEF N
  <2> QED BY <1>1, <1>2, RecursionExists
<1>5. \A n \in 1 .. N : n - 1 \in 0 .. N BY <1>1
<1>6. \A n \in 1 .. N : f[n] = NamesStep(files, n, f[n - 1]) BY <1>3, <1>4, <1>5 DEF Solution
<1>7. IsNames(files, f) BY <1>1, <1>4, <1>6 DEF Solution, IsNames, a
<1>8. IsNames(files, CHOOSE h : IsNames(files, h)) BY <1>7, Zenon
<1>9. claude_web_file_uuids(files) = (CHOOSE h : IsNames(files, h))[N] BY Zenon DEF claude_web_file_uuids, IsNames, NamesStep
<1>10. PICK h : h = CHOOSE f1 : IsNames(files, f1) OBVIOUS
<1>11. claude_web_file_uuids(files) = h[N] /\ IsNames(files, h) BY <1>8, <1>9, <1>10, Zenon
<1>12. h = [n \in 0 .. N |-> IF n = 0 THEN a ELSE NamesStep(files, n, h[n - 1])] BY <1>11, Zenon DEF IsNames, a
<1>13. h[0] = a /\ \A n \in 1 .. N : h[n] = NamesStep(files, n, h[n - 1]) BY <1>1, <1>12
<1>14. \A n \in 0 .. N : h[n] \in V
  <2>1. \A n \in 1 .. N : h[n - 1] \in V => h[n] = G[<<n, h[n - 1]>>] BY <1>3, <1>13
  <2> HIDE DEF N
  <2> QED BY <1>1, <1>2, <1>13, <2>1, RecursionTyped
<1> QED BY <1>11, <1>13, <1>14, Zenon DEF a, V

(* Attach, unfolded. *)
AttachStep(c, conversation, names, own, n, v) == AttachOne(c, <<conversation, names[n]>>, own, v)
IsAttach(c, conversation, names, own, f) == f = [n \in 0 .. Len(names) |-> IF n = 0 THEN [images |-> <<>>, bytes |-> Total(own), seen |-> {}] ELSE AttachStep(c, conversation, names, own, n, f[n - 1])]
(* What a run of the loop gathers, name by name. *)
AttachRun(c, conversation, names, own, h) ==
    /\ Attach(c, conversation, names, own) = h[Len(names)] /\ h[0] = [images |-> <<>>, bytes |-> Total(own), seen |-> {}]
    /\ \A n \in 0 .. Len(names) : h[n] \in Gathered
    /\ \A n \in 1 .. Len(names) : h[n] = AttachStep(c, conversation, names, own, n, h[n - 1])
(* Its steps. *)
LEMMA AttachSteps ==
    ASSUME NEW c \in Caches, NEW conversation \in Conversations, NEW names \in Seq(Files), NEW own \in Seq(Nat), Total(own) \in Nat,
           uploadClock \in Nat
    PROVE  \E h : AttachRun(c, conversation, names, own, h)
<1> DEFINE N == Len(names)
           a == [images |-> <<>>, bytes |-> Total(own), seen |-> {}]
           V == Gathered
           G == [p \in (1 .. N) \X V |-> AttachStep(c, conversation, names, own, p[1], p[2])]
<1>1. N \in Nat /\ a \in V BY DEF Gathered
<1>2. G \in [(1 .. N) \X V -> V] BY AttachOneTyped DEF Keys, AttachStep
<1>3. \A n \in 1 .. N, v \in V : G[<<n, v>>] = AttachStep(c, conversation, names, own, n, v) OBVIOUS
<1> HIDE DEF G, V, a
<1>4. PICK f : Solution(f, V, a, N, G)
  <2> HIDE DEF N
  <2> QED BY <1>1, <1>2, RecursionExists
<1>5. \A n \in 1 .. N : n - 1 \in 0 .. N BY <1>1
<1>6. \A n \in 1 .. N : f[n] = AttachStep(c, conversation, names, own, n, f[n - 1]) BY <1>3, <1>4, <1>5 DEF Solution
<1>7. IsAttach(c, conversation, names, own, f) BY <1>1, <1>4, <1>6 DEF Solution, IsAttach, a
<1>8. IsAttach(c, conversation, names, own, CHOOSE h : IsAttach(c, conversation, names, own, h)) BY <1>7, Zenon
<1>9. Attach(c, conversation, names, own) = (CHOOSE h : IsAttach(c, conversation, names, own, h))[N] BY Zenon DEF Attach, IsAttach, AttachStep
<1>10. PICK h : h = CHOOSE f1 : IsAttach(c, conversation, names, own, f1) OBVIOUS
<1>11. Attach(c, conversation, names, own) = h[N] /\ IsAttach(c, conversation, names, own, h) BY <1>8, <1>9, <1>10, Zenon
<1>12. h = [n \in 0 .. N |-> IF n = 0 THEN a ELSE AttachStep(c, conversation, names, own, n, h[n - 1])] BY <1>11, Zenon DEF IsAttach, a
<1>13. h[0] = a /\ \A n \in 1 .. N : h[n] = AttachStep(c, conversation, names, own, n, h[n - 1])
  <2>1. \A n \in 0 .. N : h[n] = IF n = 0 THEN a ELSE AttachStep(c, conversation, names, own, n, h[n - 1]) BY <1>12
  <2>2. 0 \in 0 .. N /\ \A n \in 1 .. N : n \in 0 .. N /\ n # 0 BY <1>1
  <2> QED BY <2>1, <2>2
<1>14. \A n \in 0 .. N : h[n] \in V
  <2>1. \A n \in 1 .. N : h[n - 1] \in V => h[n] = G[<<n, h[n - 1]>>] BY <1>3, <1>13
  <2> HIDE DEF N
  <2> QED BY <1>1, <1>2, <1>13, <2>1, RecursionTyped
<1> QED BY <1>11, <1>13, <1>14, Zenon DEF a, V, AttachRun

(* The sizes of the images in a map. *)
Sizes(u) == [k \in DOMAIN u |-> u[k].size]

(* The queue lists the map's images by age, and the bytes are theirs. *)
ByAge(c) == \A i, j \in DOMAIN c.order : i < j => c.up[c.order[i]].at <= c.up[c.order[j]].at
Good(c) ==
    /\ c \in Caches
    /\ IsInjective(c.order) /\ ToSet(c.order) = DOMAIN c.up
    /\ IsFiniteSet(DOMAIN c.up)
    /\ c.bytes = Total(Sizes(c.up))
    /\ ByAge(c)
(* d holds nothing that c does not hold. *)
Within(d, c) == DOMAIN d.up \subseteq DOMAIN c.up /\ \A k \in DOMAIN d.up : d.up[k] = c.up[k]

(* A map with one image more has the bytes of that image more. *)
LEMMA SizesAdd ==
    ASSUME NEW u \in Maps, NEW w \in Maps, NEW key \in DOMAIN u, IsFiniteSet(DOMAIN u),
           DOMAIN w = DOMAIN u \ {key}, \A k \in DOMAIN w : w[k] = u[k]
    PROVE  Total(Sizes(w)) \in Nat /\ Total(Sizes(u)) = Total(Sizes(w)) + u[key].size
<1> DEFINE S == DOMAIN w
           R == DOMAIN u
           W == Sizes(w)
           U == Sizes(u)
<1>1. Total(W) = FoldOf(W, S) /\ Total(U) = FoldOf(U, R) BY TotalIs DEF Sizes
<1>2. AddsOne(R, S, key) /\ IsFiniteSet(S) BY FS_Subset DEF AddsOne
<1>3. \A k \in R : u[k] \in Images BY MapIs
<1>4. SameOn(W, U, S) BY DEF SameOn, Sizes
<1>5. NatOn(U, R) BY <1>3, UploadAssumption DEF NatOn, Sizes, Images
<1>6. U[key] = u[key].size BY DEF Sizes
<1> HIDE DEF S, R, W, U
<1>7. OneMore(W, S, U, R, key) BY <1>2, <1>4, <1>5, FoldOneMore, Zenon
<1>8. FoldOf(W, S) \in Nat /\ FoldOf(U, R) = FoldOf(W, S) + U[key] BY <1>7, Zenon DEF OneMore
<1> QED BY <1>1, <1>6, <1>8, Zenon DEF W, U

(* An empty map has no bytes. *)
LEMMA SizesNone == ASSUME NEW u, DOMAIN u = {} PROVE Total(Sizes(u)) = 0
<1>1. DOMAIN Sizes(u) = {} BY DEF Sizes
<1> QED BY <1>1, TotalIs, FoldNone

(* Popping the front keeps the cache in order. *)
LEMMA PopGood ==
    ASSUME NEW c, Good(c), c.order # <<>>
    PROVE  /\ Good(PopFront(c)) /\ Within(PopFront(c), c)
           /\ Len(PopFront(c).order) = Len(c.order) - 1
           /\ PopFront(c).bytes <= c.bytes
<1> DEFINE p == PopFront(c)
           key == Head(c.order)
<1>1. c \in Caches /\ c.order \in Seq(Keys) /\ c.up \in Maps /\ c.bytes \in Int BY DEF Good, Caches
<1>2. /\ p \in Caches /\ p.order = Tail(c.order)
      /\ DOMAIN p.up = DOMAIN c.up \ {key}
      /\ \A k \in DOMAIN c.up \ {key} : p.up[k] = c.up[k]
      /\ p.bytes = IF key \in DOMAIN c.up THEN c.bytes - c.up[key].size ELSE c.bytes
  BY <1>1, PoppedIs
<1>3. /\ Len(p.order) = Len(c.order) - 1 /\ Len(c.order) \in Nat /\ Len(c.order) > 0
      /\ DOMAIN p.order = 1 .. Len(c.order) - 1 /\ DOMAIN c.order = 1 .. Len(c.order)
      /\ \A i \in DOMAIN p.order : p.order[i] = c.order[i + 1]
      /\ key = c.order[1]
  BY <1>1, <1>2
<1> HIDE DEF p, key
<1>4. \A i \in DOMAIN p.order : i \in Int /\ i + 1 \in DOMAIN c.order /\ i + 1 # 1 BY <1>3
<1>5. key \in DOMAIN c.up BY <1>3 DEF Good, ToSet
<1>6. IsInjective(p.order)
  <2>1. \A i, j \in DOMAIN c.order : c.order[i] = c.order[j] => i = j BY DEF Good, IsInjective
  <2>2. \A i, j \in DOMAIN p.order : p.order[i] = p.order[j] => i + 1 = j + 1 BY <1>3, <1>4, <2>1
  <2>3. \A i, j \in DOMAIN p.order : p.order[i] = p.order[j] => i = j BY <1>4, <2>2
  <2> QED BY <2>3 DEF IsInjective
<1>7. \A i \in DOMAIN p.order : p.order[i] # key /\ p.order[i] \in DOMAIN c.up
  BY <1>3, <1>4 DEF Good, IsInjective, ToSet
<1>8. ToSet(p.order) = DOMAIN p.up
  <2>1. ToSet(p.order) \subseteq DOMAIN p.up BY <1>2, <1>7 DEF ToSet
  <2>2. ASSUME NEW k \in DOMAIN p.up PROVE k \in ToSet(p.order)
    <3>1. k \in ToSet(c.order) /\ k # key BY <1>2, <2>2 DEF Good
    <3>2. PICK i \in DOMAIN c.order : c.order[i] = k BY <3>1 DEF ToSet
    <3>3. i # 1 BY <1>3, <3>1, <3>2
    <3>4. i - 1 \in DOMAIN p.order /\ p.order[i - 1] = c.order[i] BY <1>3, <3>3
    <3> QED BY <3>2, <3>4 DEF ToSet
  <2> QED BY <2>1, <2>2
<1>9. IsFiniteSet(DOMAIN c.up) /\ IsFiniteSet(DOMAIN p.up) BY <1>2, FS_Subset DEF Good
<1>10. p.bytes = Total(Sizes(p.up)) /\ p.bytes <= c.bytes
  <2>1. p.up \in Maps BY <1>2 DEF Caches
  <2>2. Total(Sizes(p.up)) \in Nat /\ Total(Sizes(c.up)) = Total(Sizes(p.up)) + c.up[key].size
    BY <1>1, <1>2, <1>5, <1>9, <2>1, SizesAdd
  <2>3. c.bytes = Total(Sizes(c.up)) BY DEF Good
  <2>4. c.up[key].size \in Nat BY <1>1, <1>5, MapIs, UploadAssumption DEF Images
  <2> QED BY <1>2, <1>5, <2>2, <2>3, <2>4
<1>11. ByAge(p)
  <2> SUFFICES ASSUME NEW i \in DOMAIN p.order, NEW j \in DOMAIN p.order, i < j
               PROVE  p.up[p.order[i]].at <= p.up[p.order[j]].at
    BY DEF ByAge
  <2>1. p.up[p.order[i]] = c.up[c.order[i + 1]] /\ p.up[p.order[j]] = c.up[c.order[j + 1]]
    BY <1>2, <1>3, <1>7
  <2>2. i + 1 < j + 1 BY <1>4
  <2> QED BY <1>4, <2>1, <2>2 DEF Good, ByAge
<1>12. Within(p, c) BY <1>2 DEF Within
<1> QED BY <1>2, <1>3, <1>6, <1>8, <1>9, <1>10, <1>11, <1>12 DEF Good, p

(* What is within something within c is within c. *)
LEMMA WithinTwice == ASSUME NEW c, NEW d, NEW e, Within(e, d), Within(d, c) PROVE Within(e, c)
BY DEF Within

(* Popping any number of times keeps the cache in order. *)
LEMMA PopsGood ==
    ASSUME NEW c, Good(c)
    PROVE  /\ Len(c.order) \in Nat
           /\ \A n \in 0 .. Len(c.order) :
                 /\ Good(Pops(c)[n]) /\ Within(Pops(c)[n], c) /\ Len(Pops(c)[n].order) = Len(c.order) - n
                 /\ Pops(c)[n].bytes <= c.bytes
<1> DEFINE f == Pops(c)
           N == Len(c.order)
           Fine(n) == Good(f[n]) /\ Within(f[n], c) /\ Len(f[n].order) = N - n
                       /\ f[n].bytes <= c.bytes
           B == {n \in 0 .. N : ~Fine(n)}
<1>1. c \in Caches /\ N \in Nat BY DEF Good, Caches
<1>2. f[0] = c /\ \A n \in 1 .. N : f[n] = PopFront(f[n - 1]) BY <1>1, PopsSteps
<1> HIDE DEF f
<1>3. B = {}
  <2> SUFFICES ASSUME B # {} PROVE FALSE OBVIOUS
  <2>1. PICK m \in B : \A y \in B : m <= y
    <3>1. B \subseteq Nat BY <1>1
    <3> HIDE DEF B
    <3> QED BY <3>1, LeastNatural
  <2>2. m \in 0 .. N /\ ~Fine(m) BY <2>1
  <2>3. m # 0 BY <1>1, <1>2, <2>2 DEF Within, Caches
  <2>4. m \in 1 .. N /\ m - 1 \in 0 .. N /\ ~ (m <= m - 1) BY <1>1, <2>2, <2>3
  <2>5. Fine(m - 1) BY <2>1, <2>4
  <2>6. f[m - 1].order # <<>> BY <1>1, <2>4, <2>5
  <2>7. Good(f[m]) /\ Within(f[m], f[m - 1]) /\ Len(f[m].order) = Len(f[m - 1].order) - 1
        /\ f[m].bytes <= f[m - 1].bytes
    BY <1>2, <2>4, <2>5, <2>6, PopGood
  <2>8. Within(f[m], c) BY <2>5, <2>7, WithinTwice
  <2>9. Len(f[m].order) = N - m BY <1>1, <2>4, <2>5, <2>7
  <2>10. f[m].bytes <= c.bytes
    <3>1. f[m].bytes \in Int /\ f[m - 1].bytes \in Int /\ c.bytes \in Int BY <1>1, <2>5, <2>7 DEF Good, Caches
    <3> QED BY <2>5, <2>7, <3>1
  <2> QED BY <2>2, <2>7, <2>8, <2>9, <2>10
<1> QED BY <1>1, <1>3 DEF f

(* The least of some naturals is one of them. *)
LEMMA MinOfNaturals ==
    ASSUME NEW S, S \subseteq Nat, S # {}
    PROVE  Min(S) \in S /\ \A y \in S : Min(S) <= y
BY LeastNatural, Zenon DEF Min

(* A queue that is empty belongs to an empty map. *)
LEMMA EmptyQueue == ASSUME NEW c, Good(c), Len(c.order) = 0 PROVE DOMAIN c.up = {}
<1>1. c.order \in Seq(Keys) BY DEF Good, Caches
<1>2. DOMAIN c.order = {} BY <1>1
<1> QED BY <1>2 DEF Good, ToSet

(* The queue's head is the oldest image. *)
LEMMA HeadOldest ==
    ASSUME NEW c, Good(c), Len(c.order) # 0
    PROVE  /\ Head(c.order) \in DOMAIN c.up
           /\ \A k \in DOMAIN c.up : c.up[Head(c.order)].at <= c.up[k].at
<1>1. c.order \in Seq(Keys) /\ c.up \in Maps BY DEF Good, Caches
<1>2. DOMAIN c.order = 1 .. Len(c.order) /\ 1 \in DOMAIN c.order /\ Head(c.order) = c.order[1] BY <1>1
<1>3. Head(c.order) \in DOMAIN c.up BY <1>2 DEF Good, ToSet
<1>4. ASSUME NEW k \in DOMAIN c.up PROVE c.up[Head(c.order)].at <= c.up[k].at
  <2>1. PICK i \in DOMAIN c.order : c.order[i] = k BY DEF Good, ToSet
  <2>2. CASE i = 1 BY <1>1, <1>2, <2>1, <2>2, MapIs DEF Images
  <2>3. CASE i # 1
    <3>1. 1 < i BY <1>2, <2>3
    <3> QED BY <1>2, <2>1, <3>1 DEF Good, ByAge
  <2> QED BY <2>2, <2>3
<1> QED BY <1>3, <1>4

(* What pruning leaves is in order, was there before, and is young. *)
LEMMA PruneIs ==
    ASSUME NEW c, Good(c), uploadClock \in Nat
    PROVE  LET p == prune_expired(c)
           IN  Good(p) /\ Within(p, c) /\ p.bytes <= c.bytes /\ \A k \in DOMAIN p.up : uploadClock - p.up[k].at < UploadTtl
<1> DEFINE f == Pops(c)
           N == Len(c.order)
           S == {n \in 0 .. N : n = N \/ ~Expired(f[n], Head(f[n].order))}
           m == Min(S)
           p == f[m]
<1>1. N \in Nat /\ \A n \in 0 .. N : Good(f[n]) /\ Within(f[n], c) /\ Len(f[n].order) = N - n /\ f[n].bytes <= c.bytes BY PopsGood
<1>2. prune_expired(c) = p BY Zenon DEF prune_expired
<1> HIDE DEF f
<1>3. S \subseteq Nat /\ N \in S BY <1>1
<1>4. m \in S
  <2> HIDE DEF S
  <2> QED BY <1>3, MinOfNaturals
<1>5. m \in 0 .. N /\ (m = N \/ ~Expired(p, Head(p.order))) BY <1>4
<1> HIDE DEF m
<1>6. Good(p) /\ Within(p, c) /\ Len(p.order) = N - m /\ p.bytes <= c.bytes BY <1>1, <1>5
<1> HIDE DEF p
<1>7. ASSUME NEW k \in DOMAIN p.up PROVE uploadClock - p.up[k].at < UploadTtl
  <2>1. Len(p.order) # 0 BY <1>6, EmptyQueue
  <2>2. m # N BY <1>1, <1>6, <2>1
  <2>3. ~ (uploadClock - p.up[Head(p.order)].at >= UploadTtl) /\ Head(p.order) \in DOMAIN p.up
    BY <1>5, <2>2 DEF Expired
  <2>4. p.up[Head(p.order)].at <= p.up[k].at BY <1>6, <2>1, HeadOldest
  <2>5. p.up[Head(p.order)] \in Images /\ p.up[k] \in Images BY <1>6, <2>3, MapIs DEF Good, Caches
  <2>6. p.up[Head(p.order)].at \in Nat /\ p.up[k].at \in Nat BY <2>5 DEF Images
  <2> QED BY <2>3, <2>4, <2>6, UploadAssumption
<1> QED BY <1>2, <1>6, <1>7

(* Evicting from the front leaves a cache within its limits. *)
LEMMA EnforceIs ==
    ASSUME NEW c, Good(c)
    PROVE  LET p == enforce_capacity(c) IN Good(p) /\ Within(p, c) /\ Fits(p)
<1> DEFINE f == Pops(c)
           N == Len(c.order)
           S == {n \in 0 .. N : n = N \/ Fits(f[n])}
           m == Min(S)
           p == f[m]
<1>1. N \in Nat /\ \A n \in 0 .. N : Good(f[n]) /\ Within(f[n], c) /\ Len(f[n].order) = N - n BY PopsGood
<1>2. enforce_capacity(c) = p BY Zenon DEF enforce_capacity
<1> HIDE DEF f
<1>3. S \subseteq Nat /\ N \in S BY <1>1
<1>4. m \in S
  <2> HIDE DEF S
  <2> QED BY <1>3, MinOfNaturals
<1>5. m \in 0 .. N /\ (m = N \/ Fits(p)) BY <1>4
<1> HIDE DEF m
<1>6. Good(p) /\ Within(p, c) /\ Len(p.order) = N - m BY <1>1, <1>5
<1> HIDE DEF p
<1>7. CASE m = N
  <2>1. DOMAIN p.up = {} BY <1>1, <1>6, <1>7, EmptyQueue
  <2>2. p.bytes = 0 BY <1>6, <2>1, SizesNone DEF Good
  <2>3. Cardinality(DOMAIN p.up) = 0 BY <2>1, FS_EmptySet
  <2> QED BY <1>2, <1>6, <2>2, <2>3, UploadAssumption DEF Fits
<1> QED BY <1>2, <1>5, <1>6, <1>7

(* A part of s, in its order and without key: place n of t is from[n] of s. *)
Thinned(t, s, m, key) ==
    \E from \in [DOMAIN t -> 1 .. m] :
        /\ \A i, j \in DOMAIN t : i < j => from[i] < from[j]
        /\ \A i \in DOMAIN t : t[i] = s[from[i]]
        /\ \A q \in 1 .. m : s[q] # key => s[q] \in ToSet(t)
        /\ key \notin ToSet(t)

(* Taking one place more keeps the order. *)
LEMMA ThinnedMore ==
    ASSUME NEW s \in Seq(Keys), NEW m \in 1 .. Len(s), NEW key, NEW t \in Seq(Keys), Thinned(t, s, m - 1, key)
    PROVE  Thinned(RetainStep(s, key, m, t), s, m, key)
<1>1. PICK from \in [DOMAIN t -> 1 .. m - 1] :
        /\ \A i, j \in DOMAIN t : i < j => from[i] < from[j]
        /\ \A i \in DOMAIN t : t[i] = s[from[i]]
        /\ \A q \in 1 .. m - 1 : s[q] # key => s[q] \in ToSet(t)
        /\ key \notin ToSet(t)
  BY DEF Thinned
<1>2. m \in Nat /\ \A q \in 1 .. m : q = m \/ q \in 1 .. m - 1 OBVIOUS
<1>3. CASE s[m] = key
  <2>1. RetainStep(s, key, m, t) = t BY <1>3 DEF RetainStep
  <2>2. from \in [DOMAIN t -> 1 .. m] BY <1>2
  <2>3. \A q \in 1 .. m : s[q] # key => s[q] \in ToSet(t) BY <1>1, <1>2, <1>3
  <2> QED BY <1>1, <2>1, <2>2, <2>3 DEF Thinned
<1>4. CASE s[m] # key
  <2> DEFINE u == Append(t, s[m])
             L == Len(t)
             more == [i \in 1 .. L + 1 |-> IF i = L + 1 THEN m ELSE from[i]]
  <2>0. RetainStep(s, key, m, t) = u BY <1>4 DEF RetainStep
  <2>1. s[m] \in Keys OBVIOUS
  <2>2. /\ DOMAIN u = 1 .. L + 1 /\ DOMAIN t = 1 .. L
        /\ \A n \in DOMAIN t : u[n] = t[n]
        /\ u[L + 1] = s[m] /\ ToSet(u) = ToSet(t) \cup {s[m]}
    BY <2>1, NumbersAppended
  <2>3. L \in Nat /\ \A i \in 1 .. L + 1 : i = L + 1 \/ i \in 1 .. L OBVIOUS
  <2>9. \A i \in 1 .. L : from[i] \in 1 .. m - 1 BY <2>2
  <2> HIDE DEF u, L
  <2>4. more \in [DOMAIN u -> 1 .. m] BY <1>2, <2>2, <2>3, <2>9
  <2>5. \A i, j \in DOMAIN u : i < j => more[i] < more[j]
    <3> SUFFICES ASSUME NEW i \in 1 .. L + 1, NEW j \in 1 .. L + 1, i < j PROVE more[i] < more[j] BY <2>2
    <3>1. i \in 1 .. L /\ more[i] = from[i] /\ i # L + 1 BY <2>3
    <3>2. CASE j = L + 1
      <4>1. more[j] = m BY <3>2
      <4> QED BY <2>9, <3>1, <4>1
    <3>3. CASE j # L + 1 BY <1>1, <2>2, <2>3, <3>1, <3>3
    <3> QED BY <3>2, <3>3
  <2>6. \A i \in DOMAIN u : u[i] = s[more[i]] BY <1>1, <2>2, <2>3
  <2>7. \A q \in 1 .. m : s[q] # key => s[q] \in ToSet(u) BY <1>1, <1>2, <2>2
  <2>8. key \notin ToSet(u) BY <1>1, <1>4, <2>2
  <2> HIDE DEF more
  <2> QED BY <2>0, <2>4, <2>5, <2>6, <2>7, <2>8 DEF Thinned
<1> QED BY <1>3, <1>4

(* What retain leaves. *)
LEMMA RetainIs ==
    ASSUME NEW s \in Seq(Keys), NEW key
    PROVE  Retain(s, key) \in Seq(Keys) /\ Thinned(Retain(s, key), s, Len(s), key)
<1>1. PICK h : /\ Retain(s, key) = h[Len(s)] /\ h[0] = <<>>
               /\ \A n \in 0 .. Len(s) : h[n] \in Seq(Keys)
               /\ \A n \in 1 .. Len(s) : h[n] = RetainStep(s, key, n, h[n - 1])
  BY RetainSteps
<1> DEFINE N == Len(s)
           B == {n \in 0 .. N : ~Thinned(h[n], s, n, key)}
<1>2. N \in Nat OBVIOUS
<1>3. Thinned(h[0], s, 0, key) BY <1>1 DEF ToSet, Thinned
<1>4. B = {}
  <2> SUFFICES ASSUME B # {} PROVE FALSE OBVIOUS
  <2>1. PICK m \in B : \A y \in B : m <= y
    <3>1. B \subseteq Nat BY <1>2
    <3> HIDE DEF B
    <3> QED BY <3>1, LeastNatural
  <2>2. m \in 0 .. N /\ ~Thinned(h[m], s, m, key) BY <2>1
  <2>3. m # 0 BY <1>3, <2>2
  <2>4. m \in 1 .. N /\ m - 1 \in 0 .. N /\ ~ (m <= m - 1) BY <1>2, <2>2, <2>3
  <2>5. Thinned(h[m - 1], s, m - 1, key) /\ h[m - 1] \in Seq(Keys) BY <1>1, <2>1, <2>4
  <2>6. Thinned(RetainStep(s, key, m, h[m - 1]), s, m, key) BY <2>4, <2>5, ThinnedMore
  <2> QED BY <1>1, <2>2, <2>4, <2>6
<1>5. N \in 0 .. N BY <1>2
<1> QED BY <1>1, <1>4, <1>5

(* The cache without an image that is uploaded again. *)
Gone(c, key) == IF key \in DOMAIN c.up THEN [RemoveKey(c, key) EXCEPT !.order = Retain(@, key)] ELSE c
(* It is in order and holds everything else. *)
LEMMA GoneIs ==
    ASSUME NEW c, Good(c), NEW key \in Keys
    PROVE  Good(Gone(c, key)) /\ Within(Gone(c, key), c) /\ DOMAIN Gone(c, key).up = DOMAIN c.up \ {key}
<1>1. CASE key \notin DOMAIN c.up BY <1>1 DEF Gone, Within
<1>2. CASE key \in DOMAIN c.up
  <2> DEFINE r == RemoveKey(c, key)
             o == Retain(c.order, key)
             g == Gone(c, key)
  <2>1. c \in Caches /\ c.order \in Seq(Keys) /\ c.up \in Maps /\ c.bytes \in Int BY DEF Good, Caches
  <2>2. /\ r \in Caches /\ r.order = c.order /\ DOMAIN r.up = DOMAIN c.up \ {key}
        /\ \A k \in DOMAIN c.up \ {key} : r.up[k] = c.up[k]
        /\ r.bytes = c.bytes - c.up[key].size
    BY <1>2, <2>1, RemovedIs
  <2>3. o \in Seq(Keys) /\ Thinned(o, c.order, Len(c.order), key) BY <2>1, RetainIs
  <2>4. g = [r EXCEPT !.order = Retain(r.order, key)] BY <1>2 DEF Gone
  <2> HIDE DEF r, g
  <2>5. g \in Caches /\ g.up = r.up /\ g.bytes = r.bytes /\ g.order = o BY <2>2, <2>3, <2>4 DEF Caches
  <2> HIDE DEF o
  <2>6. PICK from \in [DOMAIN o -> 1 .. Len(c.order)] :
        /\ \A i, j \in DOMAIN o : i < j => from[i] < from[j]
        /\ \A i \in DOMAIN o : o[i] = c.order[from[i]]
        /\ \A q \in 1 .. Len(c.order) : c.order[q] # key => c.order[q] \in ToSet(o)
        /\ key \notin ToSet(o)
    BY <2>3 DEF Thinned
  <2>7. DOMAIN c.order = 1 .. Len(c.order) /\ DOMAIN o = 1 .. Len(o) BY <2>1, <2>3
  <2>8. IsInjective(o)
    <3> SUFFICES ASSUME NEW i \in DOMAIN o, NEW j \in DOMAIN o, o[i] = o[j] PROVE i = j BY DEF IsInjective
    <3>1. from[i] \in DOMAIN c.order /\ from[j] \in DOMAIN c.order /\ c.order[from[i]] = c.order[from[j]]
      BY <2>6, <2>7
    <3>2. from[i] = from[j] BY <3>1 DEF Good, IsInjective
    <3>3. i \in Int /\ j \in Int /\ from[i] \in Int BY <2>7, <3>1
    <3> QED BY <2>6, <3>2, <3>3
  <2>9. ToSet(o) = DOMAIN g.up BY <2>2, <2>5, <2>6, <2>7 DEF ToSet, Good
  <2>10. IsFiniteSet(DOMAIN c.up) /\ IsFiniteSet(DOMAIN g.up) BY <2>2, <2>5, FS_Subset DEF Good
  <2>11. g.bytes = Total(Sizes(g.up))
    <3>1. g.up \in Maps BY <2>5 DEF Caches
    <3>2. Total(Sizes(g.up)) \in Nat /\ Total(Sizes(c.up)) = Total(Sizes(g.up)) + c.up[key].size
      BY <1>2, <2>1, <2>2, <2>5, <2>10, <3>1, SizesAdd
    <3>3. c.bytes = Total(Sizes(c.up)) BY DEF Good
    <3>4. c.up[key] \in Images BY <1>2, <2>1, MapIs
    <3>5. c.up[key].size \in Int BY <3>4, UploadAssumption DEF Images
    <3> QED BY <2>2, <2>5, <3>2, <3>3, <3>5
  <2>12. ByAge(g)
    <3> SUFFICES ASSUME NEW i \in DOMAIN o, NEW j \in DOMAIN o, i < j
                 PROVE  g.up[o[i]].at <= g.up[o[j]].at
      BY <2>5 DEF ByAge
    <3>1. o[i] \in DOMAIN g.up /\ o[j] \in DOMAIN g.up BY <2>9 DEF ToSet
    <3>2. g.up[o[i]] = c.up[c.order[from[i]]] /\ g.up[o[j]] = c.up[c.order[from[j]]] BY <2>2, <2>5, <2>6, <3>1
    <3>3. from[i] \in DOMAIN c.order /\ from[j] \in DOMAIN c.order /\ from[i] < from[j] BY <2>6, <2>7
    <3> QED BY <3>2, <3>3 DEF Good, ByAge
  <2>13. Within(g, c) /\ DOMAIN g.up = DOMAIN c.up \ {key} BY <2>2, <2>5 DEF Within
  <2> QED BY <2>5, <2>8, <2>9, <2>10, <2>11, <2>12, <2>13 DEF Good, g
<1> QED BY <1>1, <1>2

(* What an upload adds. *)
NewImage(size) == [size |-> size, at |-> uploadClock, n |-> uploadCount + 1]
(* No image is from the future. *)
Aged(c) == \A k \in DOMAIN c.up : c.up[k].at <= uploadClock
(* The new image goes last: nothing is younger. *)
LEMMA AddedIs ==
    ASSUME NEW c, Good(c), Aged(c), NEW key \in Keys, key \notin DOMAIN c.up, NEW size \in 1 .. MaxImageBytes,
           uploadClock \in Nat, uploadCount \in Nat
    PROVE  LET a == Added(c, key, size)
           IN  /\ Good(a) /\ DOMAIN a.up = DOMAIN c.up \cup {key} /\ a.up[key] = NewImage(size)
               /\ \A k \in DOMAIN c.up : a.up[k] = c.up[k]
<1> DEFINE a == Added(c, key, size)
           u == [k \in DOMAIN c.up \cup {key} |-> IF k = key THEN NewImage(size) ELSE c.up[k]]
           L == Len(c.order)
<1>1. c \in Caches /\ c.order \in Seq(Keys) /\ c.up \in Maps /\ c.bytes \in Int BY DEF Good, Caches
<1>2. a.up = u /\ a.order = Append(c.order, key) /\ a.bytes = c.bytes + size
      /\ a = [up |-> u, order |-> Append(c.order, key), bytes |-> c.bytes + size]
  BY DEF Added, NewImage
<1>3. NewImage(size) \in Images BY DEF NewImage, Images
<1>4. DOMAIN u = DOMAIN c.up \cup {key} /\ u[key] = NewImage(size) /\ \A k \in DOMAIN c.up : u[k] = c.up[k] OBVIOUS
<1>5. DOMAIN c.up \subseteq Keys /\ \A k \in DOMAIN c.up : c.up[k] \in Images BY <1>1, MapIs
<1>6. u \in Maps BY <1>3, <1>5, MapIs
<1>7. size \in Int /\ c.bytes + size \in Int BY <1>1, UploadAssumption
<1> HIDE DEF a, u
<1>8. /\ Append(c.order, key) \in Seq(Keys)
      /\ DOMAIN a.order = 1 .. L + 1 /\ DOMAIN c.order = 1 .. L
      /\ \A n \in DOMAIN c.order : a.order[n] = c.order[n]
      /\ a.order[L + 1] = key /\ ToSet(a.order) = ToSet(c.order) \cup {key}
  BY <1>1, <1>2, NumbersAppended
<1>9. a \in Caches BY <1>2, <1>6, <1>7, <1>8 DEF Caches
<1>10. L \in Nat /\ \A i \in 1 .. L + 1 : i = L + 1 \/ i \in 1 .. L BY <1>1
<1>11. \A i \in 1 .. L : a.order[i] = c.order[i] /\ c.order[i] \in DOMAIN c.up /\ c.order[i] # key
  BY <1>8 DEF Good, ToSet
<1> HIDE DEF L
<1>12. IsInjective(a.order) BY <1>8, <1>10, <1>11 DEF IsInjective, Good
<1>13. ToSet(a.order) = DOMAIN a.up BY <1>2, <1>4, <1>8 DEF Good
<1>14. IsFiniteSet(DOMAIN a.up) BY <1>2, <1>4, FS_AddElement DEF Good
<1>15. a.bytes = Total(Sizes(a.up))
  <2>1. key \in DOMAIN u /\ DOMAIN c.up = DOMAIN u \ {key} /\ \A k \in DOMAIN c.up : c.up[k] = u[k] BY <1>4
  <2>2. IsFiniteSet(DOMAIN u) BY <1>2, <1>14
  <2>3. Total(Sizes(u)) = Total(Sizes(c.up)) + u[key].size BY <1>1, <1>6, <2>1, <2>2, SizesAdd
  <2>4. u[key].size = size BY <1>4 DEF NewImage
  <2>5. c.bytes = Total(Sizes(c.up)) BY DEF Good
  <2> QED BY <1>2, <2>3, <2>4, <2>5
<1>16. ByAge(a)
  <2> SUFFICES ASSUME NEW i \in 1 .. L + 1, NEW j \in 1 .. L + 1, i < j
               PROVE  a.up[a.order[i]].at <= a.up[a.order[j]].at
    BY <1>8 DEF ByAge
  <2>1. i \in 1 .. L BY <1>10
  <2>2. a.up[a.order[i]] = c.up[c.order[i]] /\ c.order[i] \in DOMAIN c.up BY <1>2, <1>4, <1>11, <2>1
  <2>3. CASE j = L + 1 BY <1>2, <1>4, <1>8, <2>2, <2>3 DEF NewImage, Aged
  <2>4. CASE j \in 1 .. L
    <3>1. a.up[a.order[j]] = c.up[c.order[j]] BY <1>2, <1>4, <1>11, <2>4
    <3> QED BY <1>8, <2>1, <2>2, <2>4, <3>1 DEF Good, ByAge
  <2> QED BY <1>10, <2>3, <2>4
<1>17. Good(a) BY <1>9, <1>12, <1>13, <1>14, <1>15, <1>16 DEF Good
<1> QED BY <1>2, <1>4, <1>17 DEF a

(* What is in the cache after an upload: the new image and old ones. *)
LEMMA InsertIs ==
    ASSUME NEW c, Good(c), Aged(c), NEW key \in Keys, NEW size \in 1 .. MaxImageBytes,
           uploadClock \in Nat, uploadCount \in Nat
    PROVE  LET p == insert(c, key, size)
           IN  /\ Good(p) /\ Fits(p)
               /\ \A k \in DOMAIN p.up : IF k = key THEN p.up[k] = NewImage(size)
                                         ELSE k \in DOMAIN c.up /\ p.up[k] = c.up[k]
<1> DEFINE g == Gone(c, key)
           a == Added(g, key, size)
           p == enforce_capacity(a)
<1>1. insert(c, key, size) = p BY DEF insert, Gone
<1>2. Good(g) /\ Within(g, c) /\ DOMAIN g.up = DOMAIN c.up \ {key} BY GoneIs
<1> HIDE DEF g
<1>3. Aged(g) BY <1>2 DEF Aged, Within
<1>4. /\ Good(a) /\ DOMAIN a.up = DOMAIN g.up \cup {key} /\ a.up[key] = NewImage(size)
      /\ \A k \in DOMAIN g.up : a.up[k] = g.up[k]
  BY <1>2, <1>3, AddedIs
<1> HIDE DEF a
<1>5. Good(p) /\ Within(p, a) /\ Fits(p) BY <1>4, EnforceIs
<1> HIDE DEF p
<1>6. \A k \in DOMAIN p.up : IF k = key THEN p.up[k] = NewImage(size) ELSE k \in DOMAIN c.up /\ p.up[k] = c.up[k]
  BY <1>2, <1>4, <1>5 DEF Within
<1> QED BY <1>1, <1>5, <1>6

(* One place more in a list of sizes. *)
LEMMA TotalMore ==
    ASSUME NEW L \in Nat, NEW w \in [1 .. L -> Nat], NEW v \in [1 .. L + 1 -> Nat], \A i \in 1 .. L : w[i] = v[i]
    PROVE  Total(w) \in Nat /\ Total(v) = Total(w) + v[L + 1]
<1> DEFINE S == 1 .. L
           R == 1 .. L + 1
           x == L + 1
<1>1. DOMAIN w = S /\ DOMAIN v = R OBVIOUS
<1>2. Total(w) = FoldOf(w, S) /\ Total(v) = FoldOf(v, R)
  <2> HIDE DEF S, R
  <2> QED BY <1>1, TotalIs
<1>3. AddsOne(R, S, x) BY DEF AddsOne
<1>4. IsFiniteSet(S) BY FS_Interval
<1>5. SameOn(w, v, S) /\ NatOn(v, R) BY DEF SameOn, NatOn
<1> HIDE DEF S, R, x
<1>6. OneMore(w, S, v, R, x) BY <1>3, <1>4, <1>5, FoldOneMore, Zenon
<1>7. FoldOf(w, S) \in Nat /\ FoldOf(v, R) = FoldOf(w, S) + v[x] BY <1>6, Zenon DEF OneMore
<1> QED BY <1>2, <1>7, Zenon DEF x

(* The sum of nothing. *)
LEMMA TotalNone == ASSUME NEW w, DOMAIN w = {} PROVE Total(w) = 0
BY TotalIs, FoldNone

(* The sum of a list with one number more. *)
LEMMA TotalAppended ==
    ASSUME NEW s \in Seq(Nat), NEW x \in Nat
    PROVE  Total(s) \in Nat /\ Total(Append(s, x)) = Total(s) + x
<1> DEFINE L == Len(s)
           v == Append(s, x)
<1>3. /\ v \in Seq(Nat) /\ DOMAIN v = 1 .. L + 1 /\ DOMAIN s = 1 .. L
      /\ \A n \in DOMAIN s : v[n] = s[n]
      /\ v[L + 1] = x
  BY NumbersAppended
<1>1. L \in Nat /\ s \in [1 .. L -> Nat] /\ v \in [1 .. L + 1 -> Nat] /\ v[L + 1] = x
      /\ \A i \in 1 .. L : s[i] = v[i]
  <2>1. L \in Nat /\ s \in [1 .. L -> Nat] OBVIOUS
  <2>2. v \in [DOMAIN v -> Nat]
    <3> HIDE DEF v
    <3> QED BY <1>3
  <2> HIDE DEF v, L
  <2> QED BY <1>3, <2>1, <2>2
<1> HIDE DEF L, v
<1>2. Total(s) \in Nat /\ Total(v) = Total(s) + v[L + 1] BY <1>1, TotalMore
<1> QED BY <1>1, <1>2 DEF v

(* The images of the request are within the limits of an event. *)
LEMMA OwnIs ==
    ASSUME NEW inline \in Seq(Nat)
    PROVE  LET own == OwnImages(inline)
           IN  own \in Seq(Nat) /\ Len(own) <= MaxImages /\ Total(own) <= MaxImageBytes /\ Total(own) \in Nat
<1>1. PICK h : /\ OwnImages(inline) = h[Len(inline)] /\ h[0] = <<>>
               /\ \A n \in 0 .. Len(inline) : h[n] \in Seq(Nat)
               /\ \A n \in 1 .. Len(inline) : h[n] = OwnStep(inline, n, h[n - 1])
  BY OwnSteps
<1> DEFINE N == Len(inline)
           Fine(v) == Len(v) <= MaxImages /\ Total(v) <= MaxImageBytes
           B == {n \in 0 .. N : ~Fine(h[n])}
<1>2. N \in Nat OBVIOUS
<1>3. Fine(h[0]) BY <1>1, TotalNone, UploadAssumption
<1>4. B = {}
  <2> SUFFICES ASSUME B # {} PROVE FALSE OBVIOUS
  <2>1. PICK m \in B : \A y \in B : m <= y
    <3>1. B \subseteq Nat BY <1>2
    <3> HIDE DEF B
    <3> QED BY <3>1, LeastNatural
  <2>2. m \in 0 .. N /\ ~Fine(h[m]) BY <2>1
  <2>3. m # 0 BY <1>3, <2>2
  <2>4. m \in 1 .. N /\ m - 1 \in 0 .. N /\ ~ (m <= m - 1) BY <1>2, <2>2, <2>3
  <2>5. Fine(h[m - 1]) /\ h[m - 1] \in Seq(Nat) BY <1>1, <2>1, <2>4
  <2> DEFINE v == h[m - 1]
             x == inline[m]
  <2>6. x \in Nat /\ h[m] = push_base64(v, x) BY <1>1, <2>4 DEF OwnStep
  <2>7. v \in Seq(Nat) /\ Len(v) <= MaxImages /\ Total(v) <= MaxImageBytes BY <2>5
  <2> HIDE DEF v, x
  <2>8. Total(v) \in Nat /\ Total(Append(v, x)) = Total(v) + x BY <2>6, <2>7, TotalAppended
  <2>9. Len(v) \in Nat /\ Len(Append(v, x)) = Len(v) + 1 BY <2>6, <2>7
  <2>10. CASE h[m] = v BY <2>2, <2>7, <2>10
  <2>11. CASE /\ h[m] = Append(v, x) /\ ~ (Len(v) >= MaxImages) /\ ~ (x > MaxImageBytes - Total(v))
    BY <2>2, <2>6, <2>8, <2>9, <2>11, UploadAssumption
  <2> QED BY <2>6, <2>10, <2>11 DEF push_base64
<1>5. N \in 0 .. N BY <1>2
<1>6. Fine(OwnImages(inline)) /\ OwnImages(inline) \in Seq(Nat) BY <1>1, <1>4, <1>5
<1>7. Total(OwnImages(inline)) \in Nat BY <1>6, TotalAppended
<1> QED BY <1>6, <1>7

(* The files that are read are the files that are named. *)
LEMMA NamesIs ==
    ASSUME NEW files \in Seq(Files)
    PROVE  /\ claude_web_file_uuids(files) \in Seq(Files)
           /\ ToSet(claude_web_file_uuids(files)) = ToSet(files)
<1>1. PICK h : /\ claude_web_file_uuids(files) = h[Len(files)] /\ h[0] = <<>>
               /\ \A n \in 0 .. Len(files) : h[n] \in Seq(Files)
               /\ \A n \in 1 .. Len(files) : h[n] = NamesStep(files, n, h[n - 1])
  BY NamesSteps
<1> DEFINE N == Len(files)
           Fine(n) == ToSet(h[n]) = {files[i] : i \in 1 .. n}
           B == {n \in 0 .. N : ~Fine(n)}
<1>2. N \in Nat OBVIOUS
<1>3. Fine(0) BY <1>1 DEF ToSet
<1>4. B = {}
  <2> SUFFICES ASSUME B # {} PROVE FALSE OBVIOUS
  <2>1. PICK m \in B : \A y \in B : m <= y
    <3>1. B \subseteq Nat BY <1>2
    <3> HIDE DEF B
    <3> QED BY <3>1, LeastNatural
  <2>2. m \in 0 .. N /\ ~Fine(m) BY <2>1
  <2>3. m # 0 BY <1>3, <2>2
  <2>4. m \in 1 .. N /\ m - 1 \in 0 .. N /\ ~ (m <= m - 1) BY <1>2, <2>2, <2>3
  <2>5. Fine(m - 1) /\ h[m - 1] \in Seq(Files) BY <1>1, <2>1, <2>4
  <2>6. {files[i] : i \in 1 .. m} = {files[i] : i \in 1 .. m - 1} \cup {files[m]} BY <2>4
  <2>7. ToSet(h[m]) = ToSet(h[m - 1]) \cup {files[m]}
    <3>1. files[m] \in Files /\ h[m] = NamesStep(files, m, h[m - 1]) BY <1>1, <2>4
    <3>2. ToSet(Append(h[m - 1], files[m])) = ToSet(h[m - 1]) \cup {files[m]} BY <2>5, <3>1, NumbersAppended
    <3> QED BY <3>1, <3>2 DEF NamesStep
  <2> QED BY <2>2, <2>5, <2>6, <2>7
<1>5. N \in 0 .. N BY <1>2
<1>6. Fine(N) BY <1>4, <1>5
<1>7. ToSet(files) = {files[i] : i \in 1 .. N} BY DEF ToSet
<1> QED BY <1>1, <1>5, <1>6, <1>7

(* The sizes of what was attached. *)
ImageSizes(images) == [n \in DOMAIN images |-> images[n].size]
(* The bytes of the images with one image more. *)
LEMMA ImagesMore ==
    ASSUME NEW s \in Seq(Attachments), NEW x \in Attachments
    PROVE  Total(ImageSizes(s)) \in Nat /\ Total(ImageSizes(Append(s, x))) = Total(ImageSizes(s)) + x.size
<1> DEFINE L == Len(s)
           u == Append(s, x)
           w == ImageSizes(s)
           v == ImageSizes(u)
<1>1. /\ u \in Seq(Attachments)
      /\ DOMAIN u = 1 .. L + 1 /\ DOMAIN s = 1 .. L /\ L \in Nat
      /\ \A n \in DOMAIN s : u[n] = s[n]
      /\ u[L + 1] = x
  BY NumbersAppended
<1>2. \A i \in 1 .. L : s[i] \in Attachments BY <1>1
<1>3. \A i \in 1 .. L + 1 : u[i] \in Attachments BY <1>1
<1>4. \A y \in Attachments : y.size \in Nat BY UploadAssumption DEF Attachments
<1> HIDE DEF L, u
<1>5. w \in [1 .. L -> Nat] BY <1>1, <1>2, <1>4 DEF ImageSizes
<1>6. v \in [1 .. L + 1 -> Nat] BY <1>1, <1>3, <1>4 DEF ImageSizes
<1>7. L + 1 \in 1 .. L + 1 /\ \A i \in 1 .. L : i \in 1 .. L + 1 BY <1>1
<1>8. (\A i \in 1 .. L : w[i] = v[i]) /\ v[L + 1] = x.size BY <1>1, <1>7 DEF ImageSizes
<1> HIDE DEF v, w
<1>9. Total(w) \in Nat /\ Total(v) = Total(w) + v[L + 1] BY <1>1, <1>5, <1>6, <1>8, TotalMore
<1> QED BY <1>8, <1>9 DEF v, w, u

(* The keys of what was attached. *)
KeysOf(images) == {images[i].key : i \in DOMAIN images}
(* An image of the event, as the cache has it, for one of the first n names. *)
FromCache(c, conversation, names, n, image) ==
    /\ image.key \in DOMAIN c.up /\ image.n = c.up[image.key].n /\ image.size = c.up[image.key].size
    /\ image.age = uploadClock - c.up[image.key].at
    /\ \E m \in 1 .. n : image.key = <<conversation, names[m]>>
(* Nothing more of that image's size goes into the event. *)
NoRoom(c, key, v) == v.bytes + c.up[key].size > MaxImageBytes
Full(own, v) == Len(v.images) + Len(own) = MaxImages

(* What is gathered after n names. *)
Once(v) == \A i, j \in DOMAIN v.images : v.images[i].key = v.images[j].key => i = j
Limited(own, v) ==
    /\ v.bytes = Total(own) + Total(ImageSizes(v.images)) /\ v.bytes <= MaxImageBytes
    /\ Len(v.images) + Len(own) <= MaxImages
Noted(c, v) ==
    /\ KeysOf(v.images) \subseteq v.seen /\ v.seen \subseteq DOMAIN c.up
    /\ \A k \in v.seen : k \in KeysOf(v.images) \/ NoRoom(c, k, v)
Served(c, conversation, names, own, n, v) ==
    \A m \in 1 .. n : LET key == <<conversation, names[m]>>
                      IN  key \in DOMAIN c.up => key \in KeysOf(v.images) \/ Full(own, v) \/ NoRoom(c, key, v)
AttachOK(c, conversation, names, own, n, v) ==
    /\ v \in Gathered
    /\ \A i \in DOMAIN v.images : FromCache(c, conversation, names, n, v.images[i])
    /\ Once(v) /\ Limited(own, v) /\ Noted(c, v)
    /\ Served(c, conversation, names, own, n, v)

(* A name that changes nothing. *)
LEMMA AttachSame ==
    ASSUME NEW c \in Caches, NEW conversation, NEW names, NEW own \in Seq(Nat), NEW n \in Nat, n # 0, NEW v,
           AttachOK(c, conversation, names, own, n - 1, v), NEW key, key = <<conversation, names[n]>>,
           \/ key \notin DOMAIN c.up \/ Len(v.images) + Len(own) >= MaxImages
           \/ v.bytes >= MaxImageBytes \/ key \in v.seen
    PROVE  AttachOK(c, conversation, names, own, n, v)
<1>1. \A m \in 1 .. n - 1 : m \in 1 .. n OBVIOUS
<1>2. \A m \in 1 .. n : m = n \/ m \in 1 .. n - 1 OBVIOUS
<1>3. \A i \in DOMAIN v.images : FromCache(c, conversation, names, n, v.images[i])
  BY <1>1 DEF AttachOK, FromCache
<1>4. key \in DOMAIN c.up => key \in KeysOf(v.images) \/ Full(own, v) \/ NoRoom(c, key, v)
  <2> SUFFICES ASSUME key \in DOMAIN c.up PROVE key \in KeysOf(v.images) \/ Full(own, v) \/ NoRoom(c, key, v) OBVIOUS
  <2>1. CASE Len(v.images) + Len(own) >= MaxImages
    <3>1. v.images \in Seq(Attachments) BY DEF AttachOK, Gathered
    <3>2. Len(v.images) \in Nat /\ Len(own) \in Nat BY <3>1
    <3>3. Len(v.images) + Len(own) <= MaxImages BY DEF AttachOK, Limited
    <3> DEFINE a == Len(v.images) + Len(own)
    <3>4. a \in Nat /\ a <= MaxImages /\ a >= MaxImages BY <2>1, <3>2, <3>3
    <3> HIDE DEF a
    <3>5. a = MaxImages BY <3>4, UploadAssumption
    <3> QED BY <3>5 DEF Full, a
  <2>2. CASE v.bytes >= MaxImageBytes
    BY <2>2, MapIs, UploadAssumption DEF Caches, Images, AttachOK, Gathered, NoRoom
  <2>3. CASE key \in v.seen BY <2>3 DEF AttachOK, Noted
  <2> QED BY <2>1, <2>2, <2>3
<1>5. Served(c, conversation, names, own, n, v) BY <1>2, <1>4 DEF AttachOK, Served
<1> QED BY <1>3, <1>5 DEF AttachOK

(* A name whose image does not fit. *)
LEMMA AttachSkips ==
    ASSUME NEW c \in Caches, NEW conversation, NEW names, NEW own \in Seq(Nat), NEW n \in Nat, n # 0, NEW v,
           AttachOK(c, conversation, names, own, n - 1, v), NEW key \in DOMAIN c.up, key = <<conversation, names[n]>>,
           v.bytes + c.up[key].size > MaxImageBytes
    PROVE  AttachOK(c, conversation, names, own, n, [v EXCEPT !.seen = @ \cup {key}])
<1> DEFINE w == [v EXCEPT !.seen = @ \cup {key}]
<1>1. v \in Gathered /\ key \in Keys BY MapIs DEF AttachOK, Caches
<1>2. w \in Gathered /\ w.images = v.images /\ w.bytes = v.bytes /\ w.seen = v.seen \cup {key} BY <1>1 DEF Gathered
<1> HIDE DEF w
<1>3. \A m \in 1 .. n - 1 : m \in 1 .. n OBVIOUS
<1>4. \A m \in 1 .. n : m = n \/ m \in 1 .. n - 1 OBVIOUS
<1>5. \A i \in DOMAIN w.images : FromCache(c, conversation, names, n, w.images[i])
  BY <1>2, <1>3 DEF AttachOK, FromCache
<1>6. Once(w) /\ Limited(own, w) BY <1>2 DEF AttachOK, Once, Limited
<1>7. NoRoom(c, key, w) /\ \A k : NoRoom(c, k, v) => NoRoom(c, k, w) BY <1>2 DEF NoRoom
<1>8. Noted(c, w) BY <1>2, <1>7 DEF AttachOK, Noted
<1>9. Full(own, v) => Full(own, w) BY <1>2 DEF Full
<1>10. Served(c, conversation, names, own, n, w) BY <1>2, <1>4, <1>7, <1>9 DEF AttachOK, Served
<1> QED BY <1>2, <1>5, <1>6, <1>8, <1>10 DEF AttachOK, w

(* A name whose image is attached. *)
LEMMA AttachTakes ==
    ASSUME NEW c \in Caches, NEW conversation, NEW names, NEW own \in Seq(Nat), NEW n \in Nat, n # 0, NEW v,
           AttachOK(c, conversation, names, own, n - 1, v), NEW key \in DOMAIN c.up, key = <<conversation, names[n]>>,
           ~ (Len(v.images) + Len(own) >= MaxImages), key \notin v.seen, Total(own) \in Nat,
           ~ (v.bytes + c.up[key].size > MaxImageBytes),
           NEW x \in Attachments, x.key = key, x.n = c.up[key].n, x.size = c.up[key].size,
           x.age = uploadClock - c.up[key].at,
           NEW w \in Gathered, w.images = Append(v.images, x), w.bytes = v.bytes + c.up[key].size,
           w.seen = v.seen \cup {key}
    PROVE  AttachOK(c, conversation, names, own, n, w)
<1> DEFINE s == v.images
           u == w.images
           L == Len(s)
<1>1. s \in Seq(Attachments) /\ L \in Nat /\ Len(own) \in Nat /\ v.bytes \in Nat BY DEF AttachOK, Gathered
<1>2. /\ DOMAIN u = 1 .. L + 1 /\ DOMAIN s = 1 .. L
      /\ \A i \in DOMAIN s : u[i] = s[i]
      /\ u[L + 1] = x
  BY <1>1, NumbersAppended
<1>3. Len(u) = L + 1 BY <1>1
<1>4. Total(ImageSizes(s)) \in Nat /\ Total(ImageSizes(u)) = Total(ImageSizes(s)) + x.size BY <1>1, ImagesMore
<1>5. c.up[key].size \in 1 .. MaxImageBytes BY MapIs DEF Caches, Images
<1> HIDE DEF s, u, L
<1>6. \A i \in 1 .. L + 1 : i = L + 1 \/ i \in 1 .. L BY <1>1
<1>7. \A m \in 1 .. n - 1 : m \in 1 .. n OBVIOUS
<1>8. \A m \in 1 .. n : m = n \/ m \in 1 .. n - 1 OBVIOUS
<1>9. n \in 1 .. n OBVIOUS
<1>10. \A i \in 1 .. L : FromCache(c, conversation, names, n - 1, s[i]) BY <1>2 DEF AttachOK, s
<1>11. \A i \in DOMAIN u : FromCache(c, conversation, names, n, u[i])
  <2>1. ASSUME NEW i \in 1 .. L PROVE FromCache(c, conversation, names, n, u[i])
    <3>1. u[i] = s[i] BY <1>2
    <3>2. FromCache(c, conversation, names, n, s[i])
      <4> DEFINE y == s[i]
      <4>1. FromCache(c, conversation, names, n - 1, y) BY <1>10
      <4> HIDE DEF y
      <4>2. FromCache(c, conversation, names, n, y) BY <1>7, <4>1 DEF FromCache
      <4> QED BY <4>2 DEF y
    <3> QED BY <3>1, <3>2
  <2>2. FromCache(c, conversation, names, n, x) BY <1>9 DEF FromCache
  <2> QED BY <1>2, <1>6, <2>1, <2>2
<1>12. KeysOf(u) = KeysOf(s) \cup {key}
  <2>1. L + 1 \in 1 .. L + 1 /\ \A i \in 1 .. L : i \in 1 .. L + 1 BY <1>1
  <2> QED BY <1>2, <1>6, <2>1 DEF KeysOf
<1>13. \A i \in 1 .. L : s[i].key # key BY <1>2 DEF AttachOK, Noted, s, KeysOf
<1>14. Once(w)
  <2> SUFFICES ASSUME NEW i \in 1 .. L + 1, NEW j \in 1 .. L + 1, u[i].key = u[j].key PROVE i = j
    BY <1>2 DEF Once, u
  <2>1. CASE i = L + 1 \/ j = L + 1 BY <1>2, <1>6, <1>13, <2>1
  <2>2. CASE i \in 1 .. L /\ j \in 1 .. L BY <1>2, <2>2 DEF AttachOK, Once, s
  <2> QED BY <1>6, <2>1, <2>2
<1>15. v.bytes = Total(own) + Total(ImageSizes(s)) BY DEF AttachOK, Limited, s
<1>16. Limited(own, w)
  <2>1. w.bytes = Total(own) + Total(ImageSizes(u)) BY <1>4, <1>5, <1>15, UploadAssumption
  <2>2. w.bytes <= MaxImageBytes BY <1>1, <1>5, UploadAssumption
  <2>3. Len(u) + Len(own) <= MaxImages BY <1>1, <1>3, UploadAssumption DEF s, L
  <2> QED BY <2>1, <2>2, <2>3 DEF Limited, u
<1>17. ASSUME NEW k \in DOMAIN c.up, NoRoom(c, k, v) PROVE NoRoom(c, k, w)
  <2>1. c.up[k] \in Images BY MapIs DEF Caches
  <2>2. c.up[k].size \in 1 .. MaxImageBytes BY <2>1 DEF Images
  <2> DEFINE a == c.up[k].size
             b == c.up[key].size
             d == v.bytes
  <2>3. a \in Int /\ b \in Nat /\ d \in Nat /\ d + a > MaxImageBytes
    BY <1>1, <1>5, <1>17, <2>2, UploadAssumption DEF NoRoom
  <2> HIDE DEF a, b, d
  <2>4. d + b + a > MaxImageBytes BY <2>3, UploadAssumption
  <2> QED BY <2>4 DEF NoRoom, a, b, d
<1>18. Noted(c, w) BY <1>12, <1>17 DEF AttachOK, Noted, s, u
<1>19. Served(c, conversation, names, own, n, w)
  <2>1. \A m \in 1 .. n - 1 : LET k == <<conversation, names[m]>>
                              IN  k \in DOMAIN c.up => k \in KeysOf(s) \/ NoRoom(c, k, v)
    <3>1. ~Full(own, v) BY <1>1, UploadAssumption DEF Full, s, L
    <3> QED BY <3>1 DEF AttachOK, Served, s
  <2> QED BY <1>8, <1>12, <1>17, <2>1 DEF Served, u
<1> QED BY <1>11, <1>14, <1>16, <1>18, <1>19 DEF AttachOK, u

(* Every step of the loop keeps it. *)
LEMMA AttachStepOK ==
    ASSUME NEW c \in Caches, NEW conversation \in Conversations, NEW names \in Seq(Files), NEW own \in Seq(Nat),
           NEW n \in 1 .. Len(names), NEW v, AttachOK(c, conversation, names, own, n - 1, v),
           Total(own) \in Nat, uploadClock \in Nat
    PROVE  AttachOK(c, conversation, names, own, n, AttachStep(c, conversation, names, own, n, v))
<1> DEFINE key == <<conversation, names[n]>>
           w == AttachOne(c, key, own, v)
<1>1. n \in Nat /\ n # 0 /\ key \in Keys BY DEF Keys
<1>2. AttachStep(c, conversation, names, own, n, v) = w BY DEF AttachStep
<1>3. v \in Gathered BY DEF AttachOK
<1>4. w \in Gathered BY <1>1, <1>3, AttachOneTyped
<1>5. key = <<conversation, names[n]>> OBVIOUS
<1> HIDE DEF key
<1>6. CASE \/ key \notin DOMAIN c.up \/ Len(v.images) + Len(own) >= MaxImages
           \/ v.bytes >= MaxImageBytes \/ key \in v.seen BY <1>1, <1>2, <1>5, <1>6, AttachSame DEF AttachOne
<1>7. CASE ~ (\/ key \notin DOMAIN c.up \/ Len(v.images) + Len(own) >= MaxImages
              \/ v.bytes >= MaxImageBytes \/ key \in v.seen)
  <2>1. CASE v.bytes + c.up[key].size > MaxImageBytes
    <3>1. w = [v EXCEPT !.seen = @ \cup {key}] BY <1>7, <2>1 DEF AttachOne
    <3>2. AttachOK(c, conversation, names, own, n, [v EXCEPT !.seen = @ \cup {key}]) BY <1>1, <1>5, <1>7, <2>1, AttachSkips
    <3> QED BY <1>2, <3>1, <3>2
  <2>2. CASE ~ (v.bytes + c.up[key].size > MaxImageBytes)
    <3> DEFINE x == [key |-> key, n |-> c.up[key].n, size |-> c.up[key].size, age |-> uploadClock - c.up[key].at]
    <3>1. w = [images |-> Append(v.images, x), bytes |-> v.bytes + c.up[key].size, seen |-> v.seen \cup {key}]
      BY <1>7, <2>2 DEF AttachOne
    <3>2. c.up[key] \in Images BY <1>7, MapIs DEF Caches
    <3>3. c.up[key].size \in 1 .. MaxImageBytes /\ c.up[key].n \in Nat /\ c.up[key].at \in Nat BY <3>2 DEF Images
    <3>4. x \in Attachments BY <1>1, <3>3 DEF Attachments
    <3>5. x.key = key /\ x.n = c.up[key].n /\ x.size = c.up[key].size /\ x.age = uploadClock - c.up[key].at OBVIOUS
    <3> HIDE DEF x
    <3>6. w.images = Append(v.images, x) /\ w.bytes = v.bytes + c.up[key].size /\ w.seen = v.seen \cup {key} BY <3>1
    <3> HIDE DEF w
    <3>7. AttachOK(c, conversation, names, own, n, w)
      BY <1>1, <1>4, <1>5, <1>7, <2>2, <3>4, <3>5, <3>6, AttachTakes
    <3> QED BY <1>2, <3>7
  <2> QED BY <2>1, <2>2
<1> QED BY <1>6, <1>7

(* What a completion gets. *)
LEMMA AttachIs ==
    ASSUME NEW c \in Caches, NEW conversation \in Conversations, NEW names \in Seq(Files), NEW own \in Seq(Nat),
           Total(own) \in Nat, Total(own) <= MaxImageBytes, Len(own) <= MaxImages, uploadClock \in Nat
    PROVE  AttachOK(c, conversation, names, own, Len(names), Attach(c, conversation, names, own))
<1>0. PICK h : AttachRun(c, conversation, names, own, h)
  BY AttachSteps
<1>1. /\ Attach(c, conversation, names, own) = h[Len(names)]
      /\ h[0] = [images |-> <<>>, bytes |-> Total(own), seen |-> {}]
      /\ \A n \in 0 .. Len(names) : h[n] \in Gathered
      /\ \A n \in 1 .. Len(names) : h[n] = AttachStep(c, conversation, names, own, n, h[n - 1])
  BY <1>0 DEF AttachRun
<1> DEFINE N == Len(names)
           Fine(n) == AttachOK(c, conversation, names, own, n, h[n])
           B == {n \in 0 .. N : ~Fine(n)}
<1>2. N \in Nat OBVIOUS
<1>3. Fine(0)
  BY <1>1, <1>2, TotalNone, UploadAssumption DEF KeysOf, ImageSizes, Limited, Once, Noted, Served, AttachOK
<1>4. B = {}
  <2> SUFFICES ASSUME B # {} PROVE FALSE OBVIOUS
  <2>1. PICK m \in B : \A y \in B : m <= y
    <3>1. B \subseteq Nat BY <1>2
    <3> HIDE DEF B
    <3> QED BY <3>1, LeastNatural
  <2>2. m \in 0 .. N /\ ~Fine(m) BY <2>1
  <2>3. m # 0 BY <1>3, <2>2
  <2>4. m \in 1 .. N /\ m - 1 \in 0 .. N /\ ~ (m <= m - 1) BY <1>2, <2>2, <2>3
  <2>5. Fine(m - 1) BY <2>1, <2>4
  <2>6. AttachOK(c, conversation, names, own, m, AttachStep(c, conversation, names, own, m, h[m - 1]))
    BY <2>4, <2>5, AttachStepOK
  <2> QED BY <1>1, <2>2, <2>4, <2>6
<1>5. N \in 0 .. N BY <1>2
<1> QED BY <1>1, <1>4, <1>5

(* The inductive invariant of the uploads: the cache is in order, holds the  *)
(* latest image of every key it holds and none from the future.              *)
UploadTypes == uploadClock \in Nat /\ uploadCount \in Nat /\ latest \in [Keys -> Nat]
Newest(c) == \A k \in DOMAIN c.up : c.up[k].n = latest[k]
UploadInv ==
    /\ UploadTypes /\ Good(Cache) /\ Fits(Cache)
    /\ Aged(Cache) /\ Newest(Cache)
    /\ AttachedExact

(* Pruning keeps what is said of the cache. *)
LEMMA PruneKeeps ==
    ASSUME NEW c, Good(c), Fits(c), Aged(c), Newest(c), uploadClock \in Nat
    PROVE  LET p == prune_expired(c)
           IN  /\ Good(p) /\ Fits(p) /\ Aged(p) /\ Newest(p)
               /\ \A k \in DOMAIN p.up : uploadClock - p.up[k].at < UploadTtl
<1> DEFINE p == prune_expired(c)
<1>1. /\ Good(p) /\ Within(p, c) /\ p.bytes <= c.bytes
      /\ \A k \in DOMAIN p.up : uploadClock - p.up[k].at < UploadTtl
  BY PruneIs
<1> HIDE DEF p
<1>2. IsFiniteSet(DOMAIN c.up) /\ DOMAIN p.up \subseteq DOMAIN c.up BY <1>1 DEF Good, Within
<1>3. /\ Cardinality(DOMAIN p.up) <= Cardinality(DOMAIN c.up)
      /\ Cardinality(DOMAIN p.up) \in Nat /\ Cardinality(DOMAIN c.up) \in Nat
  BY <1>2, FS_Subset, FS_CardinalityType
<1>4. p.bytes \in Int /\ c.bytes \in Int BY <1>1 DEF Good, Caches
<1>5. Fits(p) BY <1>1, <1>3, <1>4, UploadAssumption DEF Fits
<1>6. Aged(p) /\ Newest(p) BY <1>1 DEF Within, Aged, Newest
<1> QED BY <1>1, <1>5, <1>6 DEF p

(* What is stored is the cache of the next state. *)
LEMMA StoreIs ==
    ASSUME NEW c \in Caches, Store(c)
    PROVE  Cache' = c
<1>1. c = [up |-> c.up, order |-> c.order, bytes |-> c.bytes] BY DEF Caches
<1> QED BY <1>1 DEF Store, Cache

(* The cache is empty at first. *)
LEMMA UploadStarts == UploadInit => UploadInv
<1> SUFFICES ASSUME UploadInit PROVE UploadInv OBVIOUS
<1>1. UploadTypes BY DEF UploadInit, UploadTypes
<1>2. uploads = <<>> /\ insertion_order = <<>> /\ cached_bytes = 0 /\ attached = <<>> BY DEF UploadInit
<1>3. Cache.up = <<>> /\ Cache.order = <<>> /\ Cache.bytes = 0 /\ Cache = [up |-> <<>>, order |-> <<>>, bytes |-> 0]
  BY <1>2 DEF Cache
<1>4. DOMAIN Cache.up = {} /\ DOMAIN Cache.order = {} BY <1>3
<1>5. Cache \in Caches
  <2>1. Cache.up \in Maps
    <3>1. Cache.up \in [DOMAIN Cache.up -> Images] BY <1>3, <1>4
    <3> QED BY <1>4, <3>1, MapIs
  <2> QED BY <1>3, <2>1 DEF Caches
<1>6. Total(Sizes(Cache.up)) = 0 BY <1>4, SizesNone
<1>7. IsFiniteSet(DOMAIN Cache.up) /\ Cardinality(DOMAIN Cache.up) = 0 BY <1>4, FS_EmptySet
<1>8. Good(Cache) BY <1>3, <1>4, <1>5, <1>6, <1>7 DEF Good, IsInjective, ToSet, ByAge
<1>9. Fits(Cache) BY <1>3, <1>7, UploadAssumption DEF Fits
<1>10. Aged(Cache) /\ Newest(Cache) BY <1>4 DEF Aged, Newest
<1>11. AttachedExact BY <1>2 DEF AttachedExact
<1> QED BY <1>1, <1>8, <1>9, <1>10, <1>11 DEF UploadInv

(* An upload keeps the invariant. *)
LEMMA UploadKeeps ==
    ASSUME UploadInv, NEW key \in Keys, NEW size \in 1 .. MaxImageBytes, record_upload(key, size)
    PROVE  UploadInv'
<1> DEFINE c == prune_expired(Cache)
           p == insert(c, key, size)
<1>1. uploadClock \in Nat /\ uploadCount \in Nat /\ latest \in [Keys -> Nat] BY DEF UploadInv, UploadTypes
<1>2. Good(c) /\ Fits(c) /\ Aged(c) /\ Newest(c) BY <1>1, PruneKeeps DEF UploadInv
<1>3. /\ Store(p) /\ uploadCount' = uploadCount + 1 /\ latest' = [latest EXCEPT ![key] = uploadCount + 1]
      /\ attached' = <<>> /\ uploadClock' = uploadClock
  BY DEF record_upload
<1> HIDE DEF c
<1>4. /\ Good(p) /\ Fits(p)
      /\ \A k \in DOMAIN p.up : IF k = key THEN p.up[k] = NewImage(size)
                                ELSE k \in DOMAIN c.up /\ p.up[k] = c.up[k]
  BY <1>1, <1>2, InsertIs
<1> HIDE DEF p
<1>5. Cache' = p
  <2>1. p \in Caches BY <1>4 DEF Good
  <2> QED BY <1>3, <2>1, StoreIs
<1>6. UploadTypes' BY <1>1, <1>3 DEF UploadTypes, Keys
<1>7. \A k \in DOMAIN p.up : p.up[k].at <= uploadClock
  BY <1>1, <1>2, <1>4 DEF Aged, NewImage
<1>8. \A k \in DOMAIN p.up : p.up[k].n = latest'[k]
  BY <1>1, <1>2, <1>3, <1>4, MapIs DEF NewImage, Good, Caches, Newest
<1>9. Good(Cache)' /\ Fits(Cache)' BY <1>4, <1>5 DEF Good, Fits, ByAge
<1>10. Aged(Cache)' BY <1>3, <1>5, <1>7 DEF Aged
<1>11. Newest(Cache)' BY <1>5, <1>8 DEF Newest
<1>12. AttachedExact' BY <1>3 DEF AttachedExact
<1> QED BY <1>6, <1>9, <1>10, <1>11, <1>12 DEF UploadInv

(* A completion keeps the invariant, and gets what the loop gathers. *)
LEMMA CompletionKeeps ==
    ASSUME UploadInv, NEW conversation \in Conversations, NEW files \in NamedFiles, NEW inline \in InlineSizes,
           attach_referenced_images(conversation, files, inline)
    PROVE  UploadInv'
<1> DEFINE c == prune_expired(Cache)
           own == OwnImages(inline)
           names == claude_web_file_uuids(files)
           v == Attach(c, conversation, names, own)
           e == [conversation |-> conversation, files |-> files, own |-> own, images |-> v.images]
<1>1. uploadClock \in Nat /\ uploadCount \in Nat /\ latest \in [Keys -> Nat] BY DEF UploadInv, UploadTypes
<1>2. /\ Good(c) /\ Fits(c) /\ Aged(c) /\ Newest(c)
      /\ \A k \in DOMAIN c.up : uploadClock - c.up[k].at < UploadTtl
  BY <1>1, PruneKeeps DEF UploadInv
<1>3. /\ Store(c) /\ attached' = <<e>>
      /\ uploadClock' = uploadClock /\ uploadCount' = uploadCount /\ latest' = latest
  BY DEF attach_referenced_images
<1>4. files \in Seq(Files) /\ inline \in Seq(Nat) BY UploadAssumption
<1>5. own \in Seq(Nat) /\ Len(own) <= MaxImages /\ Total(own) <= MaxImageBytes /\ Total(own) \in Nat BY <1>4, OwnIs
<1>6. names \in Seq(Files) /\ ToSet(names) = ToSet(files) BY <1>4, NamesIs
<1> HIDE DEF c, own, names
<1>7. c \in Caches BY <1>2 DEF Good
<1>8. AttachOK(c, conversation, names, own, Len(names), v) BY <1>1, <1>5, <1>6, <1>7, AttachIs
<1> HIDE DEF v
<1>9. Cache' = c BY <1>3, <1>7, StoreIs
<1>10. UploadTypes' BY <1>1, <1>3 DEF UploadTypes, Keys
<1>11. Good(Cache)' /\ Fits(Cache)' BY <1>2, <1>9 DEF Good, Fits, ByAge
<1>12. Aged(Cache)' /\ Newest(Cache)' BY <1>2, <1>3, <1>9 DEF Aged, Newest
<1>13. AttachedExact'
  <2>1. attached'[1] = e /\ e.conversation = conversation /\ e.files = files /\ e.own = own /\ e.images = v.images
        /\ latest' = latest /\ uploads' = c.up
    BY <1>3 DEF Store
  <2> DEFINE images == v.images
             used == Total(own) + Total([n \in DOMAIN images |-> images[n].size])
             keys == {images[n].key : n \in DOMAIN images}
  <2>2. used = v.bytes /\ keys = KeysOf(images) BY <1>8 DEF AttachOK, Limited, ImageSizes, KeysOf
  <2>3. \A m \in 1 .. Len(names) : names[m] \in ToSet(files)
    <3>1. DOMAIN names = 1 .. Len(names) BY <1>6
    <3>2. \A m \in DOMAIN names : names[m] \in ToSet(names) BY DEF ToSet
    <3> QED BY <1>6, <3>1, <3>2
  <2>4. \A n \in DOMAIN images :
           /\ \E f \in ToSet(files) : images[n].key = <<conversation, f>>
           /\ images[n].n = latest[images[n].key]
           /\ images[n].age < UploadTtl BY <1>2, <1>8, <2>3 DEF AttachOK, FromCache, Newest
  <2>5. \A m, n \in DOMAIN images : images[m].key = images[n].key => m = n BY <1>8 DEF AttachOK, Once
  <2>6. Len(images) + Len(own) <= MaxImages /\ used <= MaxImageBytes BY <1>8, <2>2 DEF AttachOK, Limited
  <2>7. ASSUME NEW f \in ToSet(files), <<conversation, f>> \in DOMAIN c.up \ keys
        PROVE  \/ Len(images) + Len(own) = MaxImages
               \/ used + c.up[<<conversation, f>>].size > MaxImageBytes
    <3>1. PICK m \in 1 .. Len(names) : names[m] = f
      <4>1. f \in ToSet(names) /\ DOMAIN names = 1 .. Len(names) BY <1>6
      <4> QED BY <4>1 DEF ToSet
    <3>2. \/ <<conversation, f>> \in KeysOf(images) \/ Full(own, v) \/ NoRoom(c, <<conversation, f>>, v)
      BY <1>8, <2>7, <3>1 DEF AttachOK, Served
    <3> QED BY <2>2, <2>7, <3>2 DEF Full, NoRoom
  <2> HIDE DEF e, images, used, keys
  <2>8. /\ e.images = images /\ used = Total(e.own) + Total([n \in DOMAIN e.images |-> e.images[n].size])
        /\ keys = {e.images[n].key : n \in DOMAIN e.images}
    BY <2>1 DEF images, used, keys
  <2>9. LET u == Total(e.own) + Total([n \in DOMAIN e.images |-> e.images[n].size])
            ks == {e.images[n].key : n \in DOMAIN e.images}
        IN  /\ \A n \in DOMAIN e.images :
                   /\ \E f \in ToSet(e.files) : e.images[n].key = <<e.conversation, f>>
                   /\ e.images[n].n = latest'[e.images[n].key]
                   /\ e.images[n].age < UploadTtl
            /\ \A m, n \in DOMAIN e.images : e.images[m].key = e.images[n].key => m = n
            /\ Len(e.images) + Len(e.own) <= MaxImages /\ u <= MaxImageBytes
            /\ \A f \in ToSet(e.files) :
                   <<e.conversation, f>> \in DOMAIN uploads' \ ks =>
                       \/ Len(e.images) + Len(e.own) = MaxImages
                       \/ u + uploads'[<<e.conversation, f>>].size > MaxImageBytes
    BY <2>1, <2>4, <2>5, <2>6, <2>7, <2>8
  <2>10. attached'[1] = e BY <2>1
  <2> QED BY <2>9, <2>10, Zenon DEF AttachedExact, AttachedRight
<1> QED BY <1>10, <1>11, <1>12, <1>13 DEF UploadInv

(* Time passing keeps the invariant. *)
LEMMA TickKeeps == ASSUME UploadInv, UploadTick PROVE UploadInv'
<1>1. /\ uploadClock' = uploadClock + 1 /\ attached' = <<>>
      /\ uploads' = uploads /\ insertion_order' = insertion_order /\ cached_bytes' = cached_bytes
      /\ uploadCount' = uploadCount /\ latest' = latest
  BY DEF UploadTick
<1>2. Cache' = Cache BY <1>1 DEF Cache
<1>3. uploadClock \in Nat /\ uploadCount \in Nat /\ latest \in [Keys -> Nat] BY DEF UploadInv, UploadTypes
<1>4. UploadTypes' BY <1>1, <1>3 DEF UploadTypes, Keys
<1>5. Good(Cache) /\ Fits(Cache) /\ Aged(Cache) /\ Newest(Cache) BY DEF UploadInv
<1>6. Good(Cache)' /\ Fits(Cache)' BY <1>2, <1>5 DEF Good, Fits, ByAge
<1>7. Aged(Cache)' BY <1>1, <1>2, <1>3, <1>5, MapIs DEF Good, Caches, Images, Aged
<1>8. Newest(Cache)' BY <1>1, <1>2, <1>5 DEF Newest
<1>9. AttachedExact' BY <1>1 DEF AttachedExact
<1> QED BY <1>4, <1>6, <1>7, <1>8, <1>9 DEF UploadInv

(* So does a step that changes nothing. *)
LEMMA UploadStill == ASSUME UploadInv, UNCHANGED uploadVars PROVE UploadInv'
<1>1. /\ uploadClock' = uploadClock /\ attached' = attached
      /\ uploads' = uploads /\ insertion_order' = insertion_order /\ cached_bytes' = cached_bytes
      /\ uploadCount' = uploadCount /\ latest' = latest
  BY DEF uploadVars
<1>2. Cache' = Cache BY <1>1 DEF Cache
<1>3. UploadTypes' BY <1>1 DEF UploadInv, UploadTypes, Keys
<1>4. Good(Cache) /\ Fits(Cache) /\ Aged(Cache) /\ Newest(Cache) BY DEF UploadInv
<1>5. Good(Cache)' /\ Fits(Cache)' BY <1>2, <1>4 DEF Good, Fits, ByAge
<1>6. Aged(Cache)' /\ Newest(Cache)' BY <1>1, <1>2, <1>4 DEF Aged, Newest
<1>7. AttachedExact'
  <2>1. AttachedExact BY DEF UploadInv
  <2> QED BY <1>1, <2>1 DEF AttachedExact
<1> QED BY <1>3, <1>5, <1>6, <1>7 DEF UploadInv

(* The invariant is enough. *)
LEMMA UploadInvExact == UploadInv => UploadsExact
<1> SUFFICES ASSUME UploadInv PROVE UploadsExact OBVIOUS
<1>1. Cache.up = uploads /\ Cache.order = insertion_order /\ Cache.bytes = cached_bytes BY DEF Cache
<1>2. Good(Cache) /\ Fits(Cache) /\ AttachedExact BY DEF UploadInv
<1>3. CacheConsistent BY <1>1, <1>2 DEF Good, Fits, CacheConsistent, Sizes
<1> QED BY <1>2, <1>3 DEF UploadsExact

\* Uploads are remembered within their limits, and a completion gets the
\* latest image of each file it names in its own conversation, while young,
\* once and as far as the event has room (claude_web/context.rs), for any
\* conversations, files and limits.
THEOREM UploadsKept == UploadSpec => []UploadsExact
<1>1. UploadInit => UploadInv BY UploadStarts
<1>2. UploadInv /\ [UploadNext]_uploadVars => UploadInv'
  BY UploadKeeps, CompletionKeeps, TickKeeps, UploadStill DEF UploadNext
<1>3. UploadInv => UploadsExact BY UploadInvExact
<1> QED BY <1>1, <1>2, <1>3, PTL DEF UploadSpec

-----------------------------------------------------------------------------
(* AgentAttribution: the one candidate that is left is the answer.           *)

(* The candidates of an exchange under a policy. *)
Candidates(t, p) == {h \in WithoutEmbedded(Detected(t)) : enabled_for_harness(p, h)} \cup CustomDetected(t, p)

(* One candidate is the answer. *)
LEMMA OnlyOneIs ==
    ASSUME NEW S, IsFiniteSet(S), OnlyOne(S) # Nobody
    PROVE  S = {OnlyOne(S)}
<1>1. Cardinality(S) = 1 /\ OnlyOne(S) = CHOOSE h \in S : TRUE BY DEF OnlyOne
<1>2. PICK x : S = {x} BY <1>1, FS_Singleton
<1>3. (CHOOSE h \in S : TRUE) \in S BY <1>2
<1> QED BY <1>1, <1>2, <1>3

(* There are finitely many candidates. *)
LEMMA CandidatesFinite ==
    ASSUME NEW t, NEW p \in HookPolicies
    PROVE  IsFiniteSet(Candidates(t, p))
<1>1. IsFiniteSet(BuiltIn)
  <2>1. BuiltIn = {"codex", "claude-desktop", "claude-code", "deepseek-harness"}
                    \cup {"hermes", "cursor", "workbuddy", "opencode"}
    BY DEF BuiltIn
  <2>2. IsFiniteSet({"codex", "claude-desktop", "claude-code", "deepseek-harness"})
    <3>1. IsFiniteSet({"codex"}) BY FS_Singleton
    <3>2. IsFiniteSet({"codex"} \cup {"claude-desktop"}) BY <3>1, FS_AddElement
    <3>3. IsFiniteSet(({"codex"} \cup {"claude-desktop"}) \cup {"claude-code"}) BY <3>2, FS_AddElement
    <3>4. IsFiniteSet((({"codex"} \cup {"claude-desktop"}) \cup {"claude-code"}) \cup {"deepseek-harness"})
      BY <3>3, FS_AddElement
    <3>5. (({"codex"} \cup {"claude-desktop"}) \cup {"claude-code"}) \cup {"deepseek-harness"}
            = {"codex", "claude-desktop", "claude-code", "deepseek-harness"}
      OBVIOUS
    <3> QED BY <3>4, <3>5
  <2>3. IsFiniteSet({"hermes", "cursor", "workbuddy", "opencode"})
    <3>1. IsFiniteSet({"hermes"}) BY FS_Singleton
    <3>2. IsFiniteSet({"hermes"} \cup {"cursor"}) BY <3>1, FS_AddElement
    <3>3. IsFiniteSet(({"hermes"} \cup {"cursor"}) \cup {"workbuddy"}) BY <3>2, FS_AddElement
    <3>4. IsFiniteSet((({"hermes"} \cup {"cursor"}) \cup {"workbuddy"}) \cup {"opencode"}) BY <3>3, FS_AddElement
    <3>5. (({"hermes"} \cup {"cursor"}) \cup {"workbuddy"}) \cup {"opencode"} = {"hermes", "cursor", "workbuddy", "opencode"}
      OBVIOUS
    <3> QED BY <3>4, <3>5
  <2> QED BY <2>1, <2>2, <2>3, FS_Union
<1>2. IsFiniteSet(DOMAIN p.harnesses) BY AttributionAssumption
<1>3. IsFiniteSet(BuiltIn \cup DOMAIN p.harnesses) BY <1>1, <1>2, FS_Union
<1>4. Candidates(t, p) \subseteq BuiltIn \cup DOMAIN p.harnesses
  BY DEF Candidates, WithoutEmbedded, Detected, CustomDetected
<1> QED BY <1>3, <1>4, FS_Subset

(* A built-in harness is detected by its signs, but for Claude Code on the   *)
(* web.                                                                      *)
LEMMA DetectedIs ==
    ASSUME NEW t \in Traffic, NEW p, NEW h \in BuiltIn
    PROVE  h \in Detected(t) <=> Signs(h, t, p) # {} /\ ~ (h = "claude-code" /\ t.web)
<1>1. t.web \in BOOLEAN /\ t.agent \in Agents /\ t.mark \in Marks /\ t.source \in KnownSources \cup Programs BY DEF Traffic
<1>2. t.source \notin {"x-codex", "desktop-app", "deepseek-harness", "hermes", "hermes-session", "cursor", "opencode", "claude-code"}
  BY <1>1, AttributionAssumption DEF KnownSources, BuiltIn, Agents, Marks
<1>3. /\ t.agent \notin {"x-codex", "hermes-session", "hermes-app", "workbuddy", "claude"}
      /\ t.mark \notin {"codex", "desktop-helper", "hermes", "hermes-app"}
  BY <1>1 DEF Agents, Marks
<1>a. CASE h = "codex" BY <1>a, <1>1, <1>2, <1>3 DEF Signs, Detected, CodexDetector
<1>b. CASE h = "claude-desktop" BY <1>b, <1>1, <1>2, <1>3 DEF Signs, Detected, ClaudeDesktopDetector
<1>d. CASE h = "deepseek-harness" BY <1>d, <1>1, <1>2, <1>3 DEF Signs, Detected, DeepSeekHarnessDetector
<1>e. CASE h = "hermes" BY <1>e, <1>1, <1>2, <1>3 DEF Signs, Detected, HermesDetector
<1>f. CASE h = "cursor" BY <1>f, <1>1, <1>2, <1>3 DEF Signs, Detected, CursorDetector
<1>g. CASE h = "workbuddy" BY <1>g, <1>1, <1>2, <1>3 DEF Signs, Detected, WorkBuddyDetector
<1>h. CASE h = "opencode" BY <1>h, <1>1, <1>2, <1>3 DEF Signs, Detected, OpenCodeDetector
<1>c. CASE h = "claude-code" BY <1>c, <1>1, <1>2, <1>3 DEF Signs, Detected, ClaudeCodeDetector
<1> QED BY <1>a, <1>b, <1>c, <1>d, <1>e, <1>f, <1>g, <1>h DEF BuiltIn

(* Who is a candidate: a harness the policy allows, by signs that count. *)
LEMMA CandidateIs ==
    ASSUME NEW t \in Traffic, NEW p \in HookPolicies, NEW h \in BuiltIn \cup DOMAIN p.harnesses
    PROVE  h \in Candidates(t, p) <=> enabled_for_harness(p, h) /\ Signs(h, t, p) # {} /\ ~Explained(h, t, p)
<1>1. CASE h \in BuiltIn
  BY <1>1, DetectedIs DEF CustomDetected, is_reserved, Candidates, BuiltIn, WithoutEmbedded, Explained
<1>2. CASE h \notin BuiltIn
  <2>1. h \in DOMAIN p.harnesses BY <1>2
  <2>2. h \notin WithoutEmbedded(Detected(t)) BY <1>2 DEF WithoutEmbedded, Detected
  <2>3. Signs(h, t, p) = {t.source} \cap p.harnesses[h].processes BY <1>2 DEF Signs
  <2>4. ~Explained(h, t, p) BY <1>2 DEF Explained, BuiltIn
  <2>5. enabled_for_harness(p, h) <=> p.harnesses[h].enabled # FALSE BY <2>1 DEF enabled_for_harness, Named
  <2>6. h \in CustomDetected(t, p) <=> p.harnesses[h].enabled # FALSE /\ t.source \in p.harnesses[h].processes
    BY <1>2, <2>1 DEF CustomDetected, is_reserved, matches
  <2> QED BY <2>2, <2>3, <2>4, <2>5, <2>6 DEF Candidates
<1> QED BY <1>1, <1>2

(* What the hook decided was decided under a policy it was given. *)
AttrInv ==
    /\ policyNow \in HookPolicies /\ traffic \in Traffic
    /\ AttributionExact

(* The snapshot's verdict. *)
LEMMA SnapshotKeeps == ASSUME AttrInv, snapshot_events PROVE AttrInv'
<1> DEFINE p == policyNow
           t == traffic
           h == detect(t, p)
<1>1. p \in HookPolicies /\ t \in Traffic BY DEF AttrInv
<1>2. /\ policyNow' = p /\ traffic' = t
      /\ verdict' = [harness |-> h, under |-> p,
                     content |-> IF h = Nobody THEN Unset ELSE content_for_harness(p, h),
                     turn |-> IF h = Nobody THEN NoTurn ELSE declare(h, t)]
  BY DEF snapshot_events
<1>3. h = OnlyOne(Candidates(t, p)) BY DEF detect, Candidates
<1>4. IsFiniteSet(Candidates(t, p)) BY <1>1, CandidatesFinite
<1>5. h # Nobody => Candidates(t, p) = {h} BY <1>3, <1>4, OnlyOneIs
<1>6. /\ verdict'.harness = h /\ verdict'.under = p
      /\ h # Nobody => verdict'.content = content_for_harness(p, h) /\ verdict'.turn = declare(h, t)
  BY <1>2
<1> HIDE DEF p, t, h
<1>7. h # Nobody => h \in BuiltIn \cup DOMAIN p.harnesses
  BY <1>5 DEF Candidates, WithoutEmbedded, Detected, CustomDetected
<1>8. h # Nobody => enabled_for_harness(p, h) /\ Signs(h, t, p) # {} /\ ~Explained(h, t, p)
  BY <1>1, <1>5, <1>7, CandidateIs
<1>9. h # Nobody => \A g \in (BuiltIn \cup DOMAIN p.harnesses) \ {h} :
                      enabled_for_harness(p, g) /\ Signs(g, t, p) # {} => Explained(g, t, p)
  BY <1>1, <1>5, CandidateIs
<1>10. AttributedExactly' BY <1>2, <1>6, <1>8, <1>9 DEF AttributedExactly, Attributed, content_for_harness
<1>11. EmbeddedHidden' BY <1>2, <1>6, <1>8 DEF EmbeddedHidden, p, Nobody, Explained
<1>12. TurnCurrent' BY <1>6 DEF TurnCurrent, Attributed, declare, RequestTurn
<1> QED BY <1>1, <1>2, <1>10, <1>11, <1>12 DEF AttrInv, AttributionExact

(* Nothing is decided at first, and a new policy changes no verdict. *)
LEMMA OthersKeep ==
    ASSUME AttrInv, policyNow' \in HookPolicies, traffic' = traffic, verdict' = verdict
    PROVE  AttrInv'
<1>1. Signs("hermes", traffic, policyNow') = Signs("hermes", traffic, policyNow) BY DEF BuiltIn, Signs
<1>2. EmbeddedHidden' BY <1>1 DEF AttrInv, AttributionExact, EmbeddedHidden
<1>3. AttributedExactly' BY Zenon DEF AttrInv, AttributionExact, AttributedExactly, Attributed
<1>4. TurnCurrent' BY DEF AttrInv, AttributionExact, TurnCurrent, Attributed
<1> QED BY <1>2, <1>3, <1>4 DEF AttrInv, AttributionExact

\* An exchange goes to the one allowed harness whose signs it carries, with
\* that harness's content of the policy it was decided under, a client that
\* Hermes runs is not told apart from it, and no message declares the turn
\* its connection was opened in (harness/registry/mod.rs, hook.rs), for every
\* policy the hook can be given.
THEOREM AttributionKept == AttrSpec => []AttributionExact
<1>1. AttrInit => AttrInv
  BY DEF AttrInit, Undecided, Attributed, Nobody, AttrInv, AttributionExact, AttributedExactly, EmbeddedHidden,
     TurnCurrent
<1>2. AttrInv /\ [AttrNext]_attrVars => AttrInv'
  BY SnapshotKeeps, OthersKeep DEF AttrInv, AttrNext, enabled, update, attrVars
<1>3. AttrInv => AttributionExact BY DEF AttrInv
<1> QED BY <1>1, <1>2, <1>3, PTL DEF AttrSpec
=============================================================================
