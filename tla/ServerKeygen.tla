----------------------------- MODULE ServerKeygen -----------------------------
(***************************************************************************)
(* cmd/jiejie-masque/server_keygen.go: runs of server-keygen that write    *)
(* the server's key and certificate to the same two paths.  A run may fail *)
(* at every write and may be killed between any two steps; files of an     *)
(* earlier run or of the operator may be there from the start.             *)
(***************************************************************************)
CONSTANTS
  Run,       \* invocations of server-keygen
  Earlier,   \* whoever wrote the files that are there at the start
  Absent     \* no file

ASSUME KeygenConstants == Earlier \notin Run

Author == Run \cup {Earlier}
File == [by : Author, whole : BOOLEAN]

ASSUME AbsentIsNoFile == Absent \notin File

VARIABLES
  key,    \* the file at keyPath
  cert,   \* the file at certPath
  pc      \* how far each run has come

vars == <<key, cert, pc>>

Init ==
  /\ key \in {Absent} \cup [by : {Earlier}, whole : BOOLEAN]
  /\ cert \in {Absent} \cup [by : {Earlier}, whole : BOOLEAN]
  /\ pc = [r \in Run |-> "start"]

Goes(r, from, to) == pc[r] = from /\ pc' = [pc EXCEPT ![r] = to]

\* Mutant of Open: without O_EXCL.
OpenAny(file) == TRUE

\* OpenFile with O_EXCL: fails if there is a file.
Open(file) == file = Absent

CreateKey(r) ==
  /\ Goes(r, "start", "writingKey")
  /\ Open(key)
  /\ key' = [by |-> r, whole |-> FALSE]
  /\ UNCHANGED cert

\* Mutant of KeyRefused: the key is removed on every failure.
KeyRefusedRemoved(r) ==
  /\ Goes(r, "start", "failed")
  /\ key' = Absent
  /\ UNCHANGED cert

\* OpenFile fails: there is a file, or the directory refuses one.  What comes
\* before it may fail too and touches no file either.
KeyRefused(r) ==
  /\ Goes(r, "start", "failed")
  /\ UNCHANGED <<key, cert>>

WriteKey(r) ==
  /\ Goes(r, "writingKey", "keyWritten")
  /\ key' = [by |-> r, whole |-> TRUE]
  /\ UNCHANGED cert

\* The error is returned and the incomplete file stays.
WriteKeyFails(r) ==
  /\ Goes(r, "writingKey", "failed")
  /\ UNCHANGED <<key, cert>>

CreateCert(r) ==
  /\ Goes(r, "keyWritten", "writingCert")
  /\ Open(cert)
  /\ cert' = [by |-> r, whole |-> FALSE]
  /\ UNCHANGED key

\* Mutant of CertRefused: the key is not removed.
CertRefusedKeyStays(r) ==
  /\ Goes(r, "keyWritten", "failed")
  /\ UNCHANGED <<key, cert>>

\* Mutant of CertRefused: a certificate that is there is taken as good.
CertRefusedTaken(r) ==
  /\ Goes(r, "keyWritten", IF Open(cert) THEN "removingKey" ELSE "done")
  /\ UNCHANGED <<key, cert>>

\* OpenFile fails as for the key; the key is written by now.
CertRefused(r) ==
  /\ Goes(r, "keyWritten", "removingKey")
  /\ UNCHANGED <<key, cert>>

WriteCert(r) ==
  /\ Goes(r, "writingCert", "done")
  /\ cert' = [by |-> r, whole |-> TRUE]
  /\ UNCHANGED key

WriteCertFails(r) ==
  /\ Goes(r, "writingCert", "removingKey")
  /\ UNCHANGED <<key, cert>>

\* The certificate could not be written; an incomplete one stays.  Remove may
\* fail, and its error is dropped.
RemoveKey(r) ==
  /\ Goes(r, "removingKey", "failed")
  /\ key' = Absent
  /\ UNCHANGED cert

RemoveKeyFails(r) ==
  /\ Goes(r, "removingKey", "keyStays")
  /\ UNCHANGED <<key, cert>>

Ended == {"done", "failed", "keyStays", "killed"}

\* The process is killed.
Killed(r) ==
  /\ pc[r] \notin Ended
  /\ pc' = [pc EXCEPT ![r] = "killed"]
  /\ UNCHANGED <<key, cert>>

AllEnded == (\A r \in Run : pc[r] \in Ended) /\ UNCHANGED vars

Next ==
  \/ \E r \in Run :
       \/ CreateKey(r) \/ KeyRefused(r) \/ WriteKey(r) \/ WriteKeyFails(r)
       \/ CreateCert(r) \/ CertRefused(r) \/ WriteCert(r) \/ WriteCertFails(r)
       \/ RemoveKey(r) \/ RemoveKeyFails(r) \/ Killed(r)
  \/ AllEnded

Spec == Init /\ [][Next]_vars

-----------------------------------------------------------------------------
\* A run that reports success has left its own complete key and certificate,
\* and nothing another run does takes them away.
SuccessIsAPair ==
  \A r \in Run :
    pc[r] = "done" =>
      key = [by |-> r, whole |-> TRUE] /\ cert = [by |-> r, whole |-> TRUE]

\* A run that fails leaves no complete private key behind, unless it could
\* not even be removed.
FailureLeavesNoKey ==
  \A r \in Run : pc[r] = "failed" => key # [by |-> r, whole |-> TRUE]

\* A complete key and a complete certificate of different authors are on disk
\* only while a run is about to write its certificate or to remove the key,
\* when it could not remove it, or when it was killed before.
PairsMatch ==
  key # Absent /\ cert # Absent =>
    \/ ~key.whole \/ ~cert.whole \/ key.by = cert.by
    \/ \E r \in Run :
         key.by = r /\ pc[r] \in {"keyWritten", "removingKey", "keyStays",
                                  "killed"}

\* No run changes or removes a file that it has not created itself.
OthersFilesStay ==
  [][/\ key # key' /\ key # Absent =>
          \E r \in Run : key.by = r /\ pc[r] # pc'[r]
     /\ cert # cert' /\ cert # Absent =>
          \E r \in Run : cert.by = r /\ pc[r] # pc'[r]
    ]_vars

=============================================================================
