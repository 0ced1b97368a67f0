--------------------------- MODULE Identity_proofs ---------------------------
(***************************************************************************)
(* Proofs about Identity for every set of processes and any number of      *)
(* starts and faults: it implements IdentityRegister.                      *)
(***************************************************************************)
EXTENDS Identity, TLAPS

(* What a rename that was not synced leaves behind a loss of power. *)
Absent(d) == d = NoDir \/ d["identity.json"] = Missing
DurableLags == durable = dir \/ (Absent(durable) /\ Readable(dir))

(* A start that was asked when the identity was there finds it there, unless the
   machine deceives it. *)
AskInv ==
    \A p \in Process :
        /\ ask[p] = "idle" <=> pc[p] = "idle"
        /\ ask[p] = "assured" =>
              /\ Readable(dir)
              /\ met[p] \/ pc[p] \in {"look", "read", "public", "repair"}

(* What a start has read is what is there; what it is about to rename is whole. *)
GotInv ==
    \A p \in Process :
        /\ pc[p] = "read" => Whole(dir)
        /\ pc[p] \in {"public", "repair", "sync"} =>
              Readable(dir) /\ got[p] = IdentityOf(dir)
        /\ pc[p] \notin {"fill", "check", "rename"} => temp[p] = NoDir
        /\ pc[p] \in {"check", "rename"} =>
              temp[p] = Filled(start[p]) /\ got[p] = IdentityOf(temp[p])

IInv == TypeOK /\ DurableLags /\ AskInv /\ GotInv

-----------------------------------------------------------------------------
(* A directory is not the absence of one. *)
LEMMA NoDirIsNone == ASSUME NEW S, NEW d \in [File -> S] PROVE d # NoDir
<1>1. "identity.json" \in DOMAIN d
  BY DEF File
<1>2. "identity.json" \notin DOMAIN NoDir
  BY DEF NoDir
<1> QED
  BY <1>1, <1>2

(* Neither a missing nor a broken file is a secret. *)
LEMMA SecretIsThere == Missing \notin Secret /\ Bad \notin Secret
  BY IdentityAssumption DEF Missing, Bad, Secret

(* A directory is readable exactly when there is an identity in it. *)
LEMMA ReadableValue ==
    ASSUME NEW d \in Dirs
    PROVE  /\ Readable(d) => IdentityOf(d) \in Secret \X Secret
           /\ Readable(d) => IdentityOf(d) # NoValue
           /\ ~Readable(d) => IdentityOf(d) = NoValue
           /\ Readable(d) => Whole(d)
<1>1. ASSUME Readable(d) PROVE IdentityOf(d) \in Secret \X Secret /\ IdentityOf(d) # NoValue
  <2>1. IdentityOf(d) = <<d["identity.json"], d["private_key.bin"]>>
    BY <1>1 DEF IdentityOf
  <2> QED
    BY <1>1, <2>1 DEF Readable, NoValue
<1> QED
  BY <1>1 DEF IdentityOf, Readable

(* There is no identity where its first file is missing. *)
LEMMA AbsentUnreadable == ASSUME NEW d, Absent(d) PROVE ~Readable(d) /\ ~Whole(d)
  BY DEF Absent, Readable, Whole, File

(* A directory that was filled is whole. *)
LEMMA FilledReadable ==
    ASSUME NEW n \in Secret
    PROVE  Filled(n) \in Dirs /\ Readable(Filled(n)) /\ Filled(n) # NoDir
<1>1. Filled(n) \in [File -> Secret]
  BY DEF Filled
<1>2. Filled(n) # NoDir
  BY <1>1, NoDirIsNone
<1>3. Filled(n) \in Dirs
  BY DEF Filled, Dirs
<1> QED
  BY <1>2, <1>3, SecretIsThere DEF Readable, Whole, Filled, File

(* A rename replaces nothing that has an identity. *)
LEMMA ReplaceableAbsent == ASSUME NEW d, Replaceable(d) PROVE Absent(d) /\ d \in Dirs
  BY DEF Replaceable, Absent, Empty, Filled, File, Dirs

(* The public key is no part of the identity: another in its place leaves the
   identity as it was, and none where there was none. *)
LEMMA RepairKeeps ==
    ASSUME NEW d \in Dirs, NEW p, got[p] \in Secret \X Secret
    PROVE  /\ Repaired(d, p) \in Dirs
           /\ Readable(d) => /\ Readable(Repaired(d, p))
                             /\ IdentityOf(Repaired(d, p)) = IdentityOf(d)
           /\ Absent(d) => Absent(Repaired(d, p))
<1>1. CASE d = NoDir
  BY <1>1 DEF Repaired, Absent, Readable, Whole
<1>2. CASE d # NoDir
  <2>0. d \in [File -> Secret \cup {Missing, Bad}]
    BY <1>2 DEF Dirs
  <2> DEFINE e == [d EXCEPT !["public_key.bin"] = got[p][2]]
  <2>1. Repaired(d, p) = e /\ got[p][2] \in Secret
    BY <1>2 DEF Repaired
  <2>2. e \in [File -> Secret \cup {Missing, Bad}]
    BY <2>0, <2>1
  <2>3. e # NoDir
    BY <2>2, NoDirIsNone
  <2>4. /\ e["identity.json"] = d["identity.json"]
        /\ e["private_key.bin"] = d["private_key.bin"]
        /\ e["public_key.bin"] = got[p][2]
    BY <2>0 DEF File
  <2>5. Readable(d) => Readable(e)
    BY <2>1, <2>3, <2>4, SecretIsThere DEF Readable, Whole, File
  <2>6. Readable(d) => IdentityOf(e) = IdentityOf(d)
    BY <2>4, <2>5 DEF IdentityOf
  <2>7. Absent(d) => Absent(e)
    BY <1>2, <2>4 DEF Absent
  <2> HIDE DEF e
  <2> QED
    BY <2>1, <2>2, <2>5, <2>6, <2>7 DEF Dirs
<1> QED
  BY <1>1, <1>2

-----------------------------------------------------------------------------
(* A start that replies is over, whatever the reply. *)
LEMMA ReplyType ==
    ASSUME TypeOK, NEW p \in Process, NEW a \in Values \cup {Refused, Failed}, Reply(p, a),
           temp' \in [Process -> Dirs], temp'[p] = NoDir,
           \A q \in Process \ {p} : temp'[q] = temp[q]
    PROVE  /\ pc' = [pc EXCEPT ![p] = "idle"]
           /\ pc' \in [Process -> {"idle", "look", "read", "public", "repair", "mkdir",
                                   "fill", "check", "rename", "sync"}]
           /\ start' \in [Process -> Secret]
           /\ got' \in [Process -> Values]
           /\ met' \in [Process -> BOOLEAN]
           /\ ask' \in [Process -> {"idle", "asked", "assured"}]
           /\ answer' \in [Process -> Values \cup {Refused, Failed}]
           /\ \A q \in Process :
                 pc'[q] = "idle" => temp'[q] = NoDir /\ got'[q] = NoValue /\ ask'[q] = "idle"
<1>1. NoValue \in Values /\ 0 \in Secret
  BY IdentityAssumption DEF Values, Secret
<1> QED
  BY <1>1 DEF TypeOK, Reply, Goto

(* Every step keeps every variable in its type. *)
LEMMA TypeStep == IInv /\ [Next]_vars => TypeOK'
<1> SUFFICES ASSUME IInv, [Next]_vars PROVE TypeOK'
  OBVIOUS
<1>t. TypeOK /\ GotInv
  BY DEF IInv
<1>r. /\ NoValue \in Values /\ Refused \in Values \cup {Refused, Failed}
      /\ NoDir \in Dirs /\ 0 \in Secret /\ Empty \in Dirs
  BY IdentityAssumption DEF Values, Dirs, Secret, Empty, Filled
<1>p. PowerLoss => TypeOK'
  BY <1>t, <1>r, IdentityAssumption DEF TypeOK, PowerLoss, Stopped, Fault
<1> SUFFICES ASSUME NEW p \in Process,
                    \/ Begin(p) \/ Look(p) \/ Read(p) \/ EnsurePublicKey(p)
                    \/ RepairPublicKey(p) \/ CreateTemp(p) \/ Fill(p) \/ Check(p)
                    \/ Rename(p) \/ SyncParent(p) \/ CannotTell(p) \/ Fail(p) \/ Kill(p)
             PROVE  TypeOK'
  BY <1>t, <1>p DEF Next, vars, procVars, TypeOK
<1>v. got[p] \in Values /\ IdentityOf(dir) \in Values
  BY <1>t, ReadableValue DEF TypeOK, Values
<1>1. CASE Begin(p)
  BY <1>1, <1>t, <1>r, IdentityAssumption DEF TypeOK, Begin, Goto, Secret
<1>2. CASE Look(p)
  <2>1. CASE Goto(p, IF Whole(dir) THEN "read" ELSE "mkdir") /\ Stay /\ UNCHANGED <<got, met>>
    BY <1>2, <1>t, <2>1 DEF TypeOK, Look, Goto, Stay
  <2>2. CASE Refuse(p)
    BY <1>2, <1>t, <2>2, ReplyType DEF TypeOK, GotInv, Look, Refuse
  <2> QED
    BY <1>2, <2>1, <2>2 DEF Look
<1>3. CASE Read(p)
  <2>1. CASE Readable(dir)
    BY <1>3, <1>t, <1>v, <2>1 DEF TypeOK, Read, Goto, Stay
  <2>2. CASE ~Readable(dir)
    BY <1>3, <1>t, <2>2, ReplyType DEF TypeOK, GotInv, Read, Refuse
  <2> QED
    BY <2>1, <2>2
<1>4. CASE EnsurePublicKey(p)
  <2>1. CASE PublicKeyIsRight(p)
    BY <1>4, <1>t, <1>v, <2>1, ReplyType DEF TypeOK, GotInv, EnsurePublicKey
  <2>2. CASE ~PublicKeyIsRight(p)
    BY <1>4, <1>t, <2>2 DEF TypeOK, EnsurePublicKey, Goto, Stay
  <2> QED
    BY <2>1, <2>2
<1>5. CASE RepairPublicKey(p)
  <2>1. got[p] \in Secret \X Secret
    BY <1>5, <1>t, ReadableValue DEF TypeOK, GotInv, RepairPublicKey
  <2>2. dir' \in Dirs /\ durable' \in Dirs
    BY <1>5, <1>t, <2>1, RepairKeeps DEF TypeOK, RepairPublicKey
  <2> QED
    BY <1>5, <1>t, <1>v, <2>2, ReplyType DEF TypeOK, GotInv, RepairPublicKey
<1>6. CASE CreateTemp(p)
  BY <1>6, <1>t, <1>r DEF TypeOK, CreateTemp, Goto, Stay
<1>7. CASE Fill(p)
  <2>1. Filled(start[p]) \in Dirs /\ IdentityOf(Filled(start[p])) \in Values
    BY <1>t, FilledReadable, ReadableValue DEF TypeOK, Values
  <2>2. got' = [got EXCEPT ![p] = IdentityOf(Filled(start[p]))]
    BY <1>7, <1>t DEF TypeOK, Fill
  <2> QED
    BY <1>7, <1>t, <2>1, <2>2 DEF TypeOK, Fill, Goto, Stay
<1>8. CASE Check(p)
  <2>1. CASE dir = NoDir
    BY <1>8, <1>t, <2>1 DEF TypeOK, Check, Goto, Stay
  <2>2. CASE dir # NoDir
    BY <1>8, <1>t, <1>r, <2>2, ReplyType DEF TypeOK, Check, Refuse, RemoveTemp, Discard
  <2> QED
    BY <2>1, <2>2
<1>9. CASE Rename(p)
  <2>1. CASE Replaceable(dir)
    BY <1>9, <1>t, <1>r, <2>1 DEF TypeOK, Rename, Discard, Goto, Stay
  <2>2. CASE ~Replaceable(dir)
    BY <1>9, <1>t, <1>r, <2>2, ReplyType DEF TypeOK, Rename, Refuse, Discard
  <2> QED
    BY <2>1, <2>2
<1>10. CASE SyncParent(p)
  BY <1>10, <1>t, <1>v, ReplyType DEF TypeOK, GotInv, SyncParent
<1>11. CASE CannotTell(p)
  BY <1>11, <1>t, IdentityAssumption DEF TypeOK, CannotTell, Fault, Goto, Stay
<1>12. CASE Fail(p)
  BY <1>12, <1>t, <1>r, IdentityAssumption, ReplyType DEF TypeOK, Fail, Fault, Discard
<1>13. CASE Kill(p)
  <2>1. faults' \in 0..MaxFaults /\ left' \in Nat
    BY <1>13, <1>t, IdentityAssumption DEF TypeOK, Kill, Fault
  <2>2. Stopped({p}) /\ UNCHANGED <<dir, durable, answer, starts>>
    BY <1>13 DEF Kill
  <2> QED
    BY <2>1, <2>2, <1>t, <1>r DEF TypeOK, Stopped
<1> QED
  BY <1>1, <1>2, <1>3, <1>4, <1>5, <1>6, <1>7, <1>8, <1>9, <1>10, <1>11, <1>12, <1>13

-----------------------------------------------------------------------------
(* Steps that leave the directory alone and concern one start only: what is known
   of the others stays. *)
Alone(p) ==
    /\ UNCHANGED <<dir, durable>>
    /\ \A q \in Process \ {p} :
          /\ pc'[q] = pc[q] /\ ask'[q] = ask[q] /\ met'[q] = met[q]
          /\ got'[q] = got[q] /\ temp'[q] = temp[q] /\ start'[q] = start[q]

LEMMA AloneStep ==
    ASSUME IInv, NEW p \in Process, Alone(p),
           \/ pc'[p] = "idle" /\ ask'[p] = "idle" /\ temp'[p] = NoDir
           \/ /\ pc'[p] # "idle" /\ ask'[p] # "idle"
              /\ ask'[p] = "assured" =>
                    /\ Readable(dir)
                    /\ met'[p] \/ pc'[p] \in {"look", "read", "public", "repair"}
              /\ pc'[p] = "read" => Whole(dir)
              /\ pc'[p] \in {"public", "repair", "sync"} =>
                    Readable(dir) /\ got'[p] = IdentityOf(dir)
              /\ pc'[p] \notin {"fill", "check", "rename"} => temp'[p] = NoDir
              /\ pc'[p] \in {"check", "rename"} =>
                    temp'[p] = Filled(start'[p]) /\ got'[p] = IdentityOf(temp'[p])
    PROVE  (DurableLags /\ AskInv /\ GotInv)'
<1>1. DurableLags' /\ Readable(dir)' = Readable(dir) /\ Whole(dir)' = Whole(dir)
      /\ IdentityOf(dir)' = IdentityOf(dir)
  BY DEF IInv, Alone, DurableLags
<1>2. AskInv'
  BY <1>1 DEF IInv, Alone, AskInv
<1>3. GotInv'
  BY <1>1 DEF IInv, Alone, GotInv
<1> QED
  BY <1>1, <1>2, <1>3

(* Every step keeps the invariant. *)
LEMMA IInvStep == IInv /\ [Next]_vars => IInv'
<1> SUFFICES ASSUME IInv, [Next]_vars PROVE IInv'
  OBVIOUS
<1>T. TypeOK'
  BY TypeStep
<1>t. TypeOK /\ DurableLags /\ AskInv /\ GotInv
  BY DEF IInv
<1>u. CASE UNCHANGED vars
  BY <1>T, <1>t, <1>u DEF IInv, vars, procVars, DurableLags, AskInv, GotInv
<1>p. CASE PowerLoss
  BY <1>T, <1>p DEF IInv, PowerLoss, Stopped, DurableLags, AskInv, GotInv
<1> SUFFICES ASSUME NEW p \in Process,
                    \/ Begin(p) \/ Look(p) \/ Read(p) \/ EnsurePublicKey(p)
                    \/ RepairPublicKey(p) \/ CreateTemp(p) \/ Fill(p) \/ Check(p)
                    \/ Rename(p) \/ SyncParent(p) \/ CannotTell(p) \/ Fail(p) \/ Kill(p)
             PROVE  (DurableLags /\ AskInv /\ GotInv)'
  BY <1>T, <1>u, <1>p DEF Next, IInv
<1>d. dir \in Dirs /\ durable \in Dirs
  BY <1>t DEF TypeOK
<1>i. ASSUME Alone(p), pc'[p] = "idle", ask'[p] = "idle", temp'[p] = NoDir
      PROVE  (DurableLags /\ AskInv /\ GotInv)'
  BY <1>i, AloneStep
<1>1. CASE Begin(p)
  <2>1. Alone(p) /\ pc'[p] = "look" /\ temp'[p] = NoDir
    BY <1>1, <1>t DEF TypeOK, Begin, Goto, Alone
  <2>2. ask'[p] = "asked" \/ (ask'[p] = "assured" /\ Readable(dir))
    BY <1>1, <1>t DEF TypeOK, Begin, IdentityOf
  <2> QED
    BY <2>1, <2>2, AloneStep
<1>2. CASE Look(p)
  <2>1. CASE Refuse(p)
    BY <1>2, <1>t, <1>i, <2>1 DEF TypeOK, GotInv, Look, Refuse, Reply, Goto, Alone
  <2>2. CASE ~Refuse(p)
    <3>1. Alone(p) /\ temp'[p] = NoDir /\ ask'[p] = ask[p] /\ ask[p] # "idle"
      BY <1>2, <1>t, <2>2 DEF TypeOK, GotInv, AskInv, Look, Goto, Stay, Alone
    <3>2. CASE Whole(dir)
      BY <1>2, <1>t, <2>2, <3>1, <3>2, AloneStep DEF TypeOK, AskInv, Look, Goto
    <3>3. CASE ~Whole(dir)
      <4>1. ask[p] # "assured"
        BY <1>t, <1>d, <3>3, ReadableValue DEF AskInv
      <4>2. pc'[p] = "mkdir"
        BY <1>2, <1>t, <2>2, <3>3 DEF TypeOK, Look, Goto
      <4> QED
        BY <3>1, <4>1, <4>2, AloneStep
    <3> QED
      BY <3>2, <3>3
  <2> QED
    BY <2>1, <2>2
<1>3. CASE Read(p)
  <2>1. CASE Readable(dir)
    <3>1. /\ Alone(p) /\ pc'[p] = "public" /\ temp'[p] = NoDir /\ got'[p] = IdentityOf(dir)
          /\ ask'[p] = ask[p] /\ ask[p] # "idle"
      BY <1>3, <1>t, <2>1 DEF TypeOK, GotInv, AskInv, Read, Goto, Stay, Alone
    <3> QED
      BY <2>1, <3>1, AloneStep
  <2>2. CASE ~Readable(dir)
    BY <1>3, <1>t, <1>i, <2>2 DEF TypeOK, GotInv, Read, Refuse, Reply, Goto, Alone
  <2> QED
    BY <2>1, <2>2
<1>4. CASE EnsurePublicKey(p)
  <2>1. CASE PublicKeyIsRight(p)
    BY <1>4, <1>t, <1>i, <2>1 DEF TypeOK, GotInv, EnsurePublicKey, Reply, Goto, Alone
  <2>2. CASE ~PublicKeyIsRight(p)
    <3>1. /\ Alone(p) /\ pc'[p] = "repair" /\ temp'[p] = NoDir /\ got'[p] = IdentityOf(dir)
          /\ ask'[p] = ask[p] /\ ask[p] # "idle" /\ Readable(dir)
      BY <1>4, <1>t, <2>2 DEF TypeOK, GotInv, AskInv, EnsurePublicKey, Goto, Stay, Alone
    <3> QED
      BY <3>1, AloneStep
  <2> QED
    BY <2>1, <2>2
<1>5. CASE RepairPublicKey(p)
  <2>1. Readable(dir) /\ got[p] = IdentityOf(dir) /\ got[p] \in Secret \X Secret
    BY <1>5, <1>t, <1>d, ReadableValue DEF GotInv, RepairPublicKey
  <2>2. dir' = Repaired(dir, p) /\ durable' = Repaired(durable, p)
    BY <1>5 DEF RepairPublicKey
  <2>3. /\ dir' \in Dirs /\ Readable(dir') /\ Whole(dir') /\ IdentityOf(dir') = IdentityOf(dir)
    BY <1>d, <2>1, <2>2, RepairKeeps, ReadableValue
  <2>4. DurableLags'
    BY <1>t, <1>d, <2>1, <2>2, <2>3, RepairKeeps DEF DurableLags
  <2>5. AskInv'
    BY <1>5, <1>t, <2>3 DEF TypeOK, AskInv, RepairPublicKey, Reply, Goto
  <2>6. GotInv'
    BY <1>5, <1>t, <2>3 DEF TypeOK, GotInv, RepairPublicKey, Reply, Goto
  <2> QED
    BY <2>4, <2>5, <2>6
<1>6. CASE CreateTemp(p)
  <2>1. Alone(p) /\ pc'[p] = "fill" /\ ask'[p] = ask[p] /\ met'[p] = met[p] /\ ask[p] # "idle"
    BY <1>6, <1>t DEF TypeOK, AskInv, CreateTemp, Goto, Stay, Alone
  <2>2. ask[p] = "assured" => Readable(dir) /\ met[p]
    BY <1>6, <1>t DEF AskInv, CreateTemp
  <2> QED
    BY <2>1, <2>2, AloneStep
<1>7. CASE Fill(p)
  <2>1. Alone(p) /\ pc'[p] = "check" /\ ask'[p] = ask[p] /\ met'[p] = met[p] /\ ask[p] # "idle"
    BY <1>7, <1>t DEF TypeOK, AskInv, Fill, Goto, Stay, Alone
  <2>2. ask[p] = "assured" => Readable(dir) /\ met[p]
    BY <1>7, <1>t DEF AskInv, Fill
  <2>3. temp'[p] = Filled(start'[p]) /\ got'[p] = IdentityOf(temp'[p])
    BY <1>7, <1>t DEF TypeOK, Fill, Stay
  <2> QED
    BY <2>1, <2>2, <2>3, AloneStep
<1>8. CASE Check(p)
  <2>1. CASE dir = NoDir
    <3>1. /\ Alone(p) /\ pc'[p] = "rename" /\ ask'[p] = ask[p] /\ ask[p] # "idle"
          /\ met'[p] = met[p]
          /\ temp'[p] = temp[p] /\ got'[p] = got[p] /\ start'[p] = start[p]
      BY <1>8, <1>t, <2>1 DEF TypeOK, AskInv, Check, Goto, Stay, Alone
    <3>2. ask[p] = "assured" => Readable(dir) /\ met[p]
      BY <1>8, <1>t DEF AskInv, Check
    <3>3. temp[p] = Filled(start[p]) /\ got[p] = IdentityOf(temp[p])
      BY <1>8, <1>t DEF GotInv, Check
    <3> QED
      BY <3>1, <3>2, <3>3, AloneStep
  <2>2. CASE dir # NoDir
    BY <1>8, <1>t, <1>i, <2>2
       DEF TypeOK, Check, RemoveTemp, Discard, Refuse, Reply, Goto, Alone
  <2> QED
    BY <2>1, <2>2
<1>9. CASE Rename(p)
  <2>1. CASE Replaceable(dir)
    <3>1. ~Readable(dir) /\ ~Whole(dir) /\ Absent(dir) /\ durable = dir
      BY <1>t, <2>1, ReplaceableAbsent, AbsentUnreadable DEF DurableLags
    <3>2. start[p] \in Secret /\ temp[p] = Filled(start[p]) /\ got[p] = IdentityOf(temp[p])
      BY <1>9, <1>t DEF TypeOK, GotInv, Rename
    <3>3. dir' = temp[p] /\ durable' = durable /\ Readable(dir')
      BY <1>9, <2>1, <3>2, FilledReadable DEF Rename
    <3>4. DurableLags'
      BY <3>1, <3>3 DEF DurableLags, Absent
    <3>5. AskInv'
      <4>1. \A q \in Process : ask[q] # "assured"
        BY <1>t, <3>1 DEF AskInv
      <4>2. ask' = ask /\ \A q \in Process : pc'[q] = "idle" <=> pc[q] = "idle"
        BY <1>9, <1>t, <2>1 DEF TypeOK, Rename, Goto, Stay
      <4> QED
        BY <1>t, <4>1, <4>2 DEF AskInv
    <3>6. GotInv'
      <4>1. /\ pc' = [pc EXCEPT ![p] = "sync"] /\ temp' = [temp EXCEPT ![p] = NoDir]
            /\ got' = got /\ start' = start
        BY <1>9, <2>1 DEF Rename, Goto, Discard, Stay
      <4>2. \A q \in Process : pc[q] \notin {"read", "public", "repair", "sync"}
        BY <1>t, <3>1 DEF GotInv
      <4> QED
        BY <1>t, <3>2, <3>3, <4>1, <4>2 DEF TypeOK, GotInv
    <3> QED
      BY <3>4, <3>5, <3>6
  <2>2. CASE ~Replaceable(dir)
    BY <1>9, <1>t, <1>i, <2>2 DEF TypeOK, Rename, Discard, Refuse, Reply, Goto, Alone
  <2> QED
    BY <2>1, <2>2
<1>10. CASE SyncParent(p)
  BY <1>10, <1>t DEF TypeOK, SyncParent, Reply, Goto, DurableLags, AskInv, GotInv
<1>11. CASE CannotTell(p)
  <2>1. /\ Alone(p) /\ pc'[p] = IF pc[p] = "look" THEN "mkdir" ELSE "rename"
        /\ ask'[p] = ask[p] /\ met'[p] /\ ask[p] # "idle"
        /\ temp'[p] = temp[p] /\ got'[p] = got[p] /\ start'[p] = start[p]
    BY <1>11, <1>t DEF TypeOK, AskInv, CannotTell, Goto, Stay, Alone
  <2>2. /\ pc[p] \in {"look", "check"}
        /\ ask[p] = "assured" => Readable(dir)
        /\ pc[p] = "look" => temp[p] = NoDir
        /\ pc[p] = "check" => temp[p] = Filled(start[p]) /\ got[p] = IdentityOf(temp[p])
    BY <1>11, <1>t DEF AskInv, GotInv, CannotTell
  <2> QED
    BY <2>1, <2>2, AloneStep
<1>12. CASE Fail(p)
  BY <1>12, <1>t, <1>i DEF TypeOK, Fail, Discard, Reply, Goto, Alone
<1>13. CASE Kill(p)
  BY <1>13, <1>t, <1>i DEF TypeOK, Kill, Stopped, Alone
<1> QED
  BY <1>1, <1>2, <1>3, <1>4, <1>5, <1>6, <1>7, <1>8, <1>9, <1>10, <1>11, <1>12, <1>13

(* No start has begun, and nothing waits for a sync. *)
LEMMA IInvInit == Init => IInv
<1> SUFFICES ASSUME Init PROVE IInv
  OBVIOUS
<1>1. NoValue \in Values /\ NoDir \in Dirs /\ 0 \in Secret
  BY IdentityAssumption DEF Values, Dirs, Secret
<1>2. Found \subseteq Dirs
  BY <1>1 DEF Found, Empty, Filled, Dirs, File
<1>3. TypeOK
  BY <1>1, <1>2, IdentityAssumption DEF Init, TypeOK
<1> QED
  BY <1>3 DEF Init, IInv, DurableLags, AskInv, GotInv

(* The invariant holds throughout. *)
LEMMA IInvHolds == Spec => []IInv
<1> QED
  BY IInvInit, IInvStep, PTL DEF Spec

(* load_or_create_at: every variable stays in its type, and a start that is over
   has left no identity in memory and no temporary directory of its own, however
   many starts race, fail or are killed. *)
THEOREM TypeCorrect == Spec => []TypeOK
<1>1. IInv => TypeOK
  BY DEF IInv
<1> QED
  BY <1>1, IInvHolds, PTL

-----------------------------------------------------------------------------
(* What the steps of the register say of this module's state. *)
Confirmed(d) == IdentityOf(d) # NoValue

(* A start that ends replies, and the register's history records it. *)
LEMMA ReplyMaps ==
    ASSUME IInv, NEW p \in Process, pc[p] # "idle", NEW a, Reply(p, a),
           IdentityOf(dir)' = IdentityOf(dir)
    PROVE  Register!Reply(p, a)
  BY DEF IInv, AskInv, Reply, Register!Reply

(* What was confirmed is there. *)
LEMMA ConfirmedIsThere ==
    ASSUME IInv
    PROVE  /\ IdentityOf(durable) = IdentityOf(dir) \/ IdentityOf(durable) = NoValue
           /\ IdentityOf(dir) \in Values
<1>1. IdentityOf(durable) = IdentityOf(dir) \/ IdentityOf(durable) = NoValue
  BY AbsentUnreadable DEF IInv, DurableLags, IdentityOf
<1>2. IdentityOf(dir) \in Values
  BY ReadableValue DEF IInv, TypeOK, Values
<1> QED
  BY <1>1, <1>2

(* A start that is refused was asked before there was an identity, or it met a
   failure of the machine. *)
LEMMA RefuseMaps ==
    ASSUME IInv, NEW p \in Process, pc[p] # "idle", Refuse(p), UNCHANGED <<dir, durable>>,
           ask[p] # "assured" \/ met[p]
    PROVE  Register!Next
<1>1. IdentityOf(dir)' = IdentityOf(dir) /\ IdentityOf(durable)' = IdentityOf(durable)
  OBVIOUS
<1>2. CASE met[p]
  <2>1. Register!Fail(p)
    BY <1>1, <1>2, ReplyMaps DEF Refuse, Register!Fail
  <2> QED
    BY <2>1 DEF Register!Next
<1>3. CASE ~met[p]
  <2>1. ask[p] = "asked"
    BY <1>3 DEF IInv, TypeOK, AskInv
  <2>2. Register!Refuse(p)
    BY <1>1, <1>3, <2>1, ReplyMaps DEF Refuse, Register!Refuse
  <2> QED
    BY <2>2 DEF Register!Next
<1> QED
  BY <1>2, <1>3

(* A start that succeeds gets the identity that is there. *)
LEMMA AnswerMaps ==
    ASSUME IInv, NEW p \in Process, pc[p] \in {"public", "repair", "sync"}, Reply(p, got[p]),
           IdentityOf(dir)' = IdentityOf(dir), Confirmed(durable) => Confirmed(durable)'
    PROVE  Register!Next
<1>1. got[p] = IdentityOf(dir) /\ got[p] # NoValue
  BY ReadableValue DEF IInv, TypeOK, GotInv
<1>2. Register!Answer(p)
  BY <1>1, ReplyMaps DEF Register!Answer, Confirmed
<1> QED
  BY <1>2 DEF Register!Next

(* Every step is one of the register's, or none. *)
LEMMA StepMaps == IInv /\ [Next]_vars => [Register!Next]_(Register!vars)
<1> SUFFICES ASSUME IInv, [Next]_vars PROVE [Register!Next]_(Register!vars)
  OBVIOUS
<1>t. TypeOK /\ DurableLags /\ AskInv /\ GotInv
  BY DEF IInv
<1>s. ASSUME UNCHANGED <<dir, durable, ask, answer>> PROVE UNCHANGED Register!vars
  BY <1>s DEF Register!vars
<1>u. CASE UNCHANGED vars
  BY <1>s, <1>u DEF vars, procVars
<1>p. CASE PowerLoss
  <2>1. IdentityOf(dir') = IdentityOf(dir)
        \/ (IdentityOf(dir') = NoValue /\ IdentityOf(durable) = NoValue)
    BY <1>p, ConfirmedIsThere DEF PowerLoss
  <2>2. durable' = dir' /\ UNCHANGED answer /\ ask' = [p \in Process |-> "idle"]
    BY <1>p DEF PowerLoss, Stopped
  <2>3. Register!PowerLoss
    BY <2>1, <2>2 DEF Register!PowerLoss
  <2> QED
    BY <2>3 DEF Register!Next
<1> SUFFICES ASSUME NEW p \in Process,
                    \/ Begin(p) \/ Look(p) \/ Read(p) \/ EnsurePublicKey(p)
                    \/ RepairPublicKey(p) \/ CreateTemp(p) \/ Fill(p) \/ Check(p)
                    \/ Rename(p) \/ SyncParent(p) \/ CannotTell(p) \/ Fail(p) \/ Kill(p)
             PROVE  Register!Next \/ UNCHANGED Register!vars
  BY <1>u, <1>p DEF Next
<1>1. CASE Begin(p)
  <2>1. Register!Ask(p)
    BY <1>1, <1>t DEF Begin, AskInv, Register!Ask
  <2> QED
    BY <2>1 DEF Register!Next
<1>2. CASE Look(p)
  <2>1. CASE Refuse(p) /\ ~Whole(dir)
    <3>1. ask[p] # "assured"
      BY <1>t, <2>1, ReadableValue DEF TypeOK, AskInv
    <3> QED
      BY <1>2, <2>1, <3>1, RefuseMaps DEF Look
  <2>2. CASE Stay
    BY <1>2, <1>s, <2>2 DEF Look, Stay
  <2> QED
    BY <1>2, <2>1, <2>2 DEF Look
<1>3. CASE Read(p)
  <2>1. CASE ~Readable(dir)
    BY <1>3, <1>t, <2>1, RefuseMaps DEF AskInv, Read
  <2>2. CASE Readable(dir)
    BY <1>3, <1>s, <2>2 DEF Read, Stay
  <2> QED
    BY <2>1, <2>2
<1>4. CASE EnsurePublicKey(p)
  <2>1. CASE PublicKeyIsRight(p)
    BY <1>4, <2>1, AnswerMaps DEF EnsurePublicKey, Confirmed
  <2>2. CASE ~PublicKeyIsRight(p)
    BY <1>4, <1>s, <2>2 DEF EnsurePublicKey, Stay
  <2> QED
    BY <2>1, <2>2
<1>5. CASE RepairPublicKey(p)
  <2>1. Readable(dir) /\ got[p] = IdentityOf(dir) /\ got[p] \in Secret \X Secret
    BY <1>5, <1>t, ReadableValue DEF TypeOK, GotInv, RepairPublicKey
  <2>2. IdentityOf(dir)' = IdentityOf(dir)
    BY <1>5, <1>t, <2>1, RepairKeeps DEF TypeOK, RepairPublicKey
  <2>3. Confirmed(durable) => Confirmed(durable)'
    <3>1. Confirmed(durable) => Readable(durable)
      BY DEF Confirmed, IdentityOf
    <3> QED
      BY <1>5, <1>t, <2>1, <3>1, RepairKeeps DEF TypeOK, RepairPublicKey, Confirmed
  <2> QED
    BY <1>5, <2>2, <2>3, AnswerMaps DEF RepairPublicKey
<1>6. CASE CreateTemp(p)
  BY <1>6, <1>s DEF CreateTemp, Stay
<1>7. CASE Fill(p)
  BY <1>7, <1>s DEF Fill, Stay
<1>8. CASE Check(p)
  <2>1. CASE dir = NoDir
    BY <1>8, <1>s, <2>1 DEF Check, Stay
  <2>2. CASE dir # NoDir
    BY <1>8, <1>t, <2>2, RefuseMaps DEF AskInv, Check
  <2> QED
    BY <2>1, <2>2
<1>9. CASE Rename(p)
  <2>1. CASE Replaceable(dir)
    <3>1. IdentityOf(dir) = NoValue
      BY <2>1, ReplaceableAbsent, AbsentUnreadable DEF IdentityOf
    <3>2. IdentityOf(temp[p]) \in Secret \X Secret
      BY <1>9, <1>t, FilledReadable, ReadableValue DEF TypeOK, GotInv, Rename
    <3>3. dir' = temp[p] /\ UNCHANGED <<durable, ask, answer>>
      BY <1>9, <2>1 DEF Rename, Stay
    <3>4. Register!Establish
      BY <3>1, <3>2, <3>3 DEF Register!Establish
    <3> QED
      BY <3>4 DEF Register!Next
  <2>2. CASE ~Replaceable(dir)
    BY <1>9, <1>t, <2>2, RefuseMaps DEF AskInv, Rename
  <2> QED
    BY <2>1, <2>2
<1>10. CASE SyncParent(p)
  <2>1. Confirmed(dir)
    BY <1>10, <1>t, ReadableValue DEF TypeOK, GotInv, SyncParent, Confirmed
  <2> QED
    BY <1>10, <2>1, AnswerMaps DEF SyncParent, Confirmed
<1>11. CASE CannotTell(p)
  BY <1>11, <1>s DEF CannotTell, Stay
<1>12. CASE Fail(p)
  <2>1. Register!Fail(p)
    BY <1>12, ReplyMaps DEF Fail, Register!Fail
  <2> QED
    BY <2>1 DEF Register!Next
<1>13. CASE Kill(p)
  <2>1. Register!Stop(p)
    BY <1>13, <1>t DEF TypeOK, Kill, Stopped, Register!Stop
  <2> QED
    BY <2>1 DEF Register!Next
<1> QED
  BY <1>1, <1>2, <1>3, <1>4, <1>5, <1>6, <1>7, <1>8, <1>9, <1>10, <1>11, <1>12, <1>13

(* load_or_create_at: whatever starts race, fail, are killed or lose power, the
   identity is written once and every start that succeeds gets the one that is
   there; a start that began when it was there is not refused. *)
THEOREM IdentityWrittenOnce == Spec => WrittenOnce
<1>1. Init => Register!Init
  <2> SUFFICES ASSUME Init PROVE Register!Init
    OBVIOUS
  <2>1. IdentityOf(dir) \in Values
    BY IInvInit, ConfirmedIsThere
  <2> QED
    BY <2>1 DEF Init, Values, Register!Init
<1> QED
  BY <1>1, StepMaps, IInvHolds, PTL DEF Spec, WrittenOnce, Register!Spec
=============================================================================
