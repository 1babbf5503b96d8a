-------------------------- MODULE ServerKeygenProofs --------------------------
(***************************************************************************)
(* The properties of server-keygen for any number of runs on the same      *)
(* paths.                                                                  *)
(*                                                                         *)
(* What keeps the runs apart is O_EXCL: a run writes to a path, or removes *)
(* it, only while the file there is its own.  Holds says for every         *)
(* position of a run which files that is; Complete says which positions a  *)
(* run can be in when a complete file bears its name.                      *)
(***************************************************************************)
EXTENDS ServerKeygen, TLAPS

Position == Ended \cup {"start", "writingKey", "keyWritten", "writingCert",
                        "removingKey"}

KeygenTypes ==
  /\ key \in {Absent} \cup File
  /\ cert \in {Absent} \cup File
  /\ pc \in [Run -> Position]

Whole(r) == [by |-> r, whole |-> TRUE]
Part(r) == [by |-> r, whole |-> FALSE]

NotBy(r, file) == file \notin {Whole(r), Part(r)}

\* What a run at its position finds on the paths.
Holds(r) ==
  /\ pc[r] = "start" => NotBy(r, key)
  /\ pc[r] = "writingKey" => key = Part(r)
  /\ pc[r] \in {"keyWritten", "writingCert", "done", "removingKey"} => key = Whole(r)
  /\ pc[r] = "failed" => key # Whole(r)
  /\ pc[r] \in {"start", "writingKey", "keyWritten"} => NotBy(r, cert)
  /\ pc[r] = "writingCert" => cert = Part(r)
  /\ pc[r] = "done" => cert = Whole(r)

\* Where a run is when a complete file is its own.
Complete(r) ==
  /\ key = Whole(r) =>
       pc[r] \in {"keyWritten", "writingCert", "done", "removingKey",
                  "keyStays", "killed"}
  /\ cert = Whole(r) => pc[r] = "done"

KeygenInv ==
  /\ KeygenTypes
  /\ \A r \in Run : Holds(r) /\ Complete(r)

-----------------------------------------------------------------------------
\* A file has one author and is complete or not.
LEMMA FilesDiffer ==
  ASSUME NEW r \in Run, NEW s \in Run
  PROVE  /\ Whole(r) # Part(s) /\ Whole(r) # Absent /\ Part(r) # Absent
         /\ Whole(r) = Whole(s) => r = s
         /\ Part(r) = Part(s) => r = s
         /\ Whole(r) \in File /\ Part(r) \in File
<1>1. Whole(r) \in File /\ Part(r) \in File
  BY DEF Whole, Part, File, Author
<1> QED  BY <1>1, AbsentIsNoFile DEF Whole, Part

\* The files of before are nobody's of the runs.
LEMMA InitKeygenInv == Init => KeygenInv
<1> SUFFICES ASSUME Init PROVE KeygenInv
  OBVIOUS
<1>1. KeygenTypes
  BY DEF Init, KeygenTypes, Position, File, Author
<1>2. ASSUME NEW r \in Run PROVE Holds(r) /\ Complete(r)
  <2>1. pc[r] = "start"
    BY DEF Init
  <2>2. ASSUME NEW file, file = Absent \/ file.by = Earlier
        PROVE  NotBy(r, file)
    <3>1. Whole(r) # Absent /\ Part(r) # Absent
      BY FilesDiffer
    <3>2. Whole(r).by = r /\ Part(r).by = r /\ r # Earlier
      BY KeygenConstants DEF Whole, Part
    <3> QED  BY <2>2, <3>1, <3>2 DEF NotBy
  <2>3. /\ key = Absent \/ key.by = Earlier
        /\ cert = Absent \/ cert.by = Earlier
    BY DEF Init
  <2>4. NotBy(r, key) /\ NotBy(r, cert)
    BY <2>2, <2>3
  <2> QED  BY <2>1, <2>4 DEF Holds, Complete, NotBy
<1> QED  BY <1>1, <1>2 DEF KeygenInv

\* Every step of a run preserves the invariant, for the run and for the others.
LEMMA NextKeygenInv == KeygenInv /\ [Next]_vars => KeygenInv'
<1> SUFFICES ASSUME KeygenInv, [Next]_vars PROVE KeygenInv'
  OBVIOUS
<1> USE DEF KeygenInv, KeygenTypes, Goes, Position, Ended
<1>1. CASE UNCHANGED vars
  BY <1>1 DEF vars, Holds, Complete
<1>2. ASSUME NEW r \in Run, CreateKey(r) PROVE KeygenInv'
  BY <1>2, FilesDiffer
     DEF CreateKey, Open, Holds, Complete, NotBy, Whole, Part
<1>3. ASSUME NEW r \in Run, KeyRefused(r) PROVE KeygenInv'
  BY <1>3, FilesDiffer
     DEF KeyRefused, Holds, Complete, NotBy, Whole, Part
<1>4. ASSUME NEW r \in Run, WriteKey(r) PROVE KeygenInv'
  <2>1. key' = Whole(r) /\ cert' = cert
    BY <1>4 DEF WriteKey, Whole
  <2>2. Whole(r) \in File /\ pc' \in [Run -> Position]
    BY <1>4, FilesDiffer DEF WriteKey
  <2>3. ASSUME NEW q \in Run PROVE Holds(q)' /\ Complete(q)'
    <3>1. Holds(r) /\ Complete(r) /\ Holds(q) /\ Complete(q)
      OBVIOUS
    <3>2. pc[r] = "writingKey" /\ key = Part(r)
      BY <1>4, <3>1 DEF WriteKey, Holds
    <3>3. pc' = [pc EXCEPT ![r] = "keyWritten"]
      BY <1>4 DEF WriteKey
    <3>4. CASE q = r
      BY <2>1, <3>1, <3>2, <3>3, <3>4, FilesDiffer DEF Holds, Complete, NotBy
    <3>5. CASE q # r
      <4>1. pc'[q] = pc[q]
        BY <3>3, <3>5
      <4>2. /\ key # Whole(q) /\ key # Part(q)
            /\ key' # Whole(q) /\ key' # Part(q)
        BY <2>1, <3>2, <3>5, FilesDiffer
      <4> QED  BY <2>1, <3>1, <4>1, <4>2 DEF Holds, Complete, NotBy
    <3> QED  BY <3>4, <3>5
  <2> QED  BY <2>1, <2>2, <2>3
<1>5. ASSUME NEW r \in Run, WriteKeyFails(r) PROVE KeygenInv'
  BY <1>5, FilesDiffer
     DEF WriteKeyFails, Holds, Complete, NotBy, Whole, Part
<1>6. ASSUME NEW r \in Run, CreateCert(r) PROVE KeygenInv'
  BY <1>6, FilesDiffer
     DEF CreateCert, Open, Holds, Complete, NotBy, Whole, Part
<1>7. ASSUME NEW r \in Run, CertRefused(r) PROVE KeygenInv'
  BY <1>7, FilesDiffer
     DEF CertRefused, Holds, Complete, NotBy, Whole, Part
<1>8. ASSUME NEW r \in Run, WriteCert(r) PROVE KeygenInv'
  <2>1. cert' = Whole(r) /\ key' = key
    BY <1>8 DEF WriteCert, Whole
  <2>2. Whole(r) \in File /\ pc' \in [Run -> Position]
    BY <1>8, FilesDiffer DEF WriteCert
  <2>3. ASSUME NEW q \in Run PROVE Holds(q)' /\ Complete(q)'
    <3>1. Holds(r) /\ Complete(r) /\ Holds(q) /\ Complete(q)
      OBVIOUS
    <3>2. pc[r] = "writingCert" /\ cert = Part(r)
      BY <1>8, <3>1 DEF WriteCert, Holds
    <3>3. pc' = [pc EXCEPT ![r] = "done"]
      BY <1>8 DEF WriteCert
    <3>4. CASE q = r
      BY <2>1, <3>1, <3>2, <3>3, <3>4, FilesDiffer DEF Holds, Complete, NotBy
    <3>5. CASE q # r
      <4>1. pc'[q] = pc[q]
        BY <3>3, <3>5
      <4>2. /\ cert # Whole(q) /\ cert # Part(q)
            /\ cert' # Whole(q) /\ cert' # Part(q)
        BY <2>1, <3>2, <3>5, FilesDiffer
      <4> QED  BY <2>1, <3>1, <4>1, <4>2 DEF Holds, Complete, NotBy
    <3> QED  BY <3>4, <3>5
  <2> QED  BY <2>1, <2>2, <2>3
<1>9. ASSUME NEW r \in Run, WriteCertFails(r) PROVE KeygenInv'
  BY <1>9, FilesDiffer
     DEF WriteCertFails, Holds, Complete, NotBy, Whole, Part
<1>10. ASSUME NEW r \in Run, RemoveKey(r) PROVE KeygenInv'
  <2>1. \A q \in Run : key' # Whole(q) /\ key' # Part(q)
    BY <1>10, FilesDiffer DEF RemoveKey
  <2>2. \A q \in Run \ {r} : key # Whole(q) /\ key # Part(q)
    BY <1>10, FilesDiffer DEF RemoveKey, Holds
  <2>3. KeygenTypes'
    BY <1>10 DEF RemoveKey
  <2>4. ASSUME NEW q \in Run PROVE Holds(q)' /\ Complete(q)'
    BY <1>10, <2>1, <2>2, FilesDiffer
       DEF RemoveKey, Holds, Complete, NotBy
  <2> QED  BY <2>3, <2>4
<1>11. ASSUME NEW r \in Run, RemoveKeyFails(r) PROVE KeygenInv'
  BY <1>11, FilesDiffer
     DEF RemoveKeyFails, Holds, Complete, NotBy, Whole, Part
<1>12. ASSUME NEW r \in Run, Killed(r) PROVE KeygenInv'
  BY <1>12, FilesDiffer
     DEF Killed, Holds, Complete, NotBy, Whole, Part
<1>13. CASE AllEnded
  BY <1>13, <1>1 DEF AllEnded
<1> QED  BY <1>1, <1>2, <1>3, <1>4, <1>5, <1>6, <1>7, <1>8, <1>9, <1>10, <1>11, <1>12, <1>13 DEF Next

\* Which files a run has at each of its positions, in every reachable state.
THEOREM KeygenInvariance == Spec => []KeygenInv
BY InitKeygenInv, NextKeygenInv, PTL DEF Spec

-----------------------------------------------------------------------------
\* A run that reports success has its own complete pair on disk, however many
\* others run beside it or after it.
THEOREM SuccessLeavesAPair == Spec => []SuccessIsAPair
<1>1. KeygenInv => SuccessIsAPair
  BY DEF KeygenInv, Holds, Whole, SuccessIsAPair
<1> QED  BY <1>1, KeygenInvariance, PTL

\* A run that has failed has left no complete private key of its own.
THEOREM FailureLeavesNothing == Spec => []FailureLeavesNoKey
<1>1. KeygenInv => FailureLeavesNoKey
  BY DEF KeygenInv, Holds, Whole, FailureLeavesNoKey
<1> QED  BY <1>1, KeygenInvariance, PTL

\* A complete certificate was written by a run that is done, and such a run
\* still has its key: what else can stand beside it is the key of a run that
\* has not ended or could not clean up, or files from before.
THEOREM PairsAlwaysMatch == Spec => []PairsMatch
<1>1. KeygenInv => PairsMatch
  <2> SUFFICES ASSUME KeygenInv, key # Absent, cert # Absent,
                      key.whole, cert.whole, key.by # cert.by
               PROVE  \E r \in Run :
                        /\ key.by = r
                        /\ pc[r] \in {"keyWritten", "removingKey", "keyStays",
                                      "killed"}
    BY DEF PairsMatch
  <2>1. key \in File /\ cert \in File
    BY DEF KeygenInv, KeygenTypes
  <2>2. key = Whole(key.by) /\ cert = Whole(cert.by)
    BY <2>1 DEF File, Whole
  <2>3. key.by \in Author /\ cert.by \in Author
    BY <2>1 DEF File
  <2>4. cert.by \notin Run
    <3> SUFFICES ASSUME cert.by \in Run PROVE FALSE
      OBVIOUS
    <3>1. pc[cert.by] = "done"
      BY <2>2 DEF KeygenInv, Complete
    <3>2. key = Whole(cert.by)
      BY <3>1 DEF KeygenInv, Holds
    <3> QED  BY <3>2 DEF Whole
  <2>5. key.by \in Run
    BY <2>3, <2>4 DEF Author
  <2>6. pc[key.by] \in {"keyWritten", "writingCert", "done", "removingKey",
                        "keyStays", "killed"}
    BY <2>2, <2>5 DEF KeygenInv, Complete
  <2>7. pc[key.by] \notin {"writingCert", "done"}
    <3>1. pc[key.by] = "writingCert" => cert = Part(key.by)
      BY <2>5 DEF KeygenInv, Holds
    <3>2. pc[key.by] = "done" => cert = Whole(key.by)
      BY <2>5 DEF KeygenInv, Holds
    <3> QED  BY <3>1, <3>2 DEF Part, Whole
  <2> QED  BY <2>5, <2>6, <2>7
<1> QED  BY <1>1, KeygenInvariance, PTL

\* A run changes a path only while the file there is its own or none is there.
THEOREM ForeignFilesStay == Spec => OthersFilesStay
<1> DEFINE Step ==
      /\ key # key' /\ key # Absent =>
           \E r \in Run : key.by = r /\ pc[r] # pc'[r]
      /\ cert # cert' /\ cert # Absent =>
           \E r \in Run : cert.by = r /\ pc[r] # pc'[r]
<1>1. KeygenInv /\ [Next]_vars => [Step]_vars
  <2> SUFFICES ASSUME KeygenInv, Next PROVE Step
    OBVIOUS
  <2> USE DEF Goes
  <2>1. ASSUME NEW r \in Run, WriteKey(r) \/ RemoveKey(r) PROVE Step
    <3>1. key \in {Part(r), Whole(r)} /\ cert' = cert
      BY <2>1 DEF KeygenInv, Holds, WriteKey, RemoveKey
    <3>2. key.by = r
      BY <3>1 DEF Part, Whole
    <3>3. pc[r] # pc'[r]
      BY <2>1 DEF KeygenInv, KeygenTypes, WriteKey, RemoveKey
    <3> QED  BY <3>1, <3>2, <3>3
  <2>2. ASSUME NEW r \in Run, WriteCert(r) PROVE Step
    <3>1. cert = Part(r) /\ key' = key
      BY <2>2 DEF KeygenInv, Holds, WriteCert
    <3>2. cert.by = r
      BY <3>1 DEF Part
    <3>3. pc[r] # pc'[r]
      BY <2>2 DEF KeygenInv, KeygenTypes, WriteCert
    <3> QED  BY <3>1, <3>2, <3>3
  <2>3. ASSUME NEW r \in Run, CreateKey(r) \/ CreateCert(r) PROVE Step
    BY <2>3 DEF CreateKey, CreateCert, Open
  <2>4. ASSUME NEW r \in Run,
               \/ KeyRefused(r) \/ WriteKeyFails(r) \/ CertRefused(r)
               \/ WriteCertFails(r) \/ RemoveKeyFails(r) \/ Killed(r)
        PROVE  Step
    BY <2>4 DEF KeyRefused, WriteKeyFails, CertRefused, WriteCertFails,
                RemoveKeyFails, Killed
  <2>5. CASE AllEnded
    BY <2>5 DEF AllEnded, vars
  <2> QED  BY <2>1, <2>2, <2>3, <2>4, <2>5 DEF Next
<1> HIDE DEF Step
<1>2. Spec => [][Step]_vars
  BY <1>1, KeygenInvariance, PTL DEF Spec
<1> QED  BY <1>2 DEF Step, OthersFilesStay

=============================================================================
