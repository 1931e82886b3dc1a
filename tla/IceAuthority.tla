----------------------------- MODULE IceAuthority -----------------------------
(***************************************************************************)
(* XsmpServer, before it accepts connections: the sessions of one user     *)
(* share the ICE authority file.  Each replaces the entries of its own     *)
(* network id there under the lock of libICE, so that its clients find the *)
(* cookie that the session expects.  A session may die at any point, and   *)
(* its network id, made from its process id, is then used again.           *)
(***************************************************************************)
EXTENDS Sequences, Integers

CONSTANTS
  Session,      \* sessions of the user, one after or beside the other
  NetOf,        \* the network id that a session listens on
  NoNet,        \* an entry without network id
  Earlier,      \* who wrote the entries that were there before
  InitialFile,  \* what the file may hold at first, or NoFile
  NoFile,       \* there is no authority file
  NoOne,        \* nobody holds the lock
  LockRetries,  \* KSM_ICE_AUTH_RETRIES
  Buffer        \* entries that go to the file in one write

Protocol == {"ICE", "XSMP"}

\* by stands for the cookie: every session generates its own.
Entry ==
  [proto : Protocol, net : {NetOf[s] : s \in Session} \cup {NoNet},
   by : Session \cup {Earlier}]

ASSUME IceAssumption ==
  /\ NoOne \notin Session
  /\ \A s \in Session : NetOf[s] # NoNet
  /\ NoFile \notin Seq(Entry)
  /\ InitialFile \subseteq Seq(Entry) \cup {NoFile}
  /\ {LockRetries, Buffer} \subseteq Nat \ {0}

VARIABLES
  stage,    \* how far listen_socket of a session is
  tries,    \* how often a session found the lock taken
  entries,  \* auth_entries, what a session writes to the file
  written,  \* how many of them the file has got
  expects,  \* sessions that gave libICE their cookies
  lock,     \* the session that made the lock file, or NoOne
  lockOld,  \* the lock file is older than KSM_ICE_AUTH_LOCK_TIMEOUT
  file,     \* what a reader gets from the authority file, or NoFile
  lost      \* history: sessions that a death between two writes cost their cookies

iceVars == <<stage, tries, entries, written, expects, lock, lockOld, file,
             lost>>

Stage == {"off", "lock", "update", "write", "unlock", "serve", "deaf", "dead"}

IceTypeOK ==
  /\ stage \in [Session -> Stage]
  /\ tries \in [Session -> 0 .. LockRetries]
  /\ entries \in [Session -> Seq({e \in Entry : e.net # NoNet})]
  /\ written \in [Session -> Nat]
  /\ \A s \in Session : written[s] <= Len(entries[s])
  /\ expects \subseteq Session
  /\ lock \in Session \cup {NoOne}
  /\ lockOld \in BOOLEAN
  /\ file \in Seq(Entry) \cup {NoFile}
  /\ lost \subseteq Session

IceInit ==
  /\ stage = [s \in Session |-> "off"]
  /\ tries = [s \in Session |-> 0]
  /\ entries = [s \in Session |-> <<>>]
  /\ written = [s \in Session |-> 0]
  /\ expects = {}
  /\ lock = NoOne
  /\ lockOld = FALSE
  /\ file \in InitialFile
  /\ lost = {}

GoTo(s, next) == stage' = [stage EXCEPT ![s] = next]

\* Fault: a lock is broken whatever its age (KSM_ICE_AUTH_LOCK_TIMEOUT of 0).
ListenSocketBreaking(s) ==
  /\ stage[s] = "off"
  /\ \A o \in Session \ {s} : NetOf[o] = NetOf[s] => stage[o] \in {"off", "dead"}
  /\ GoTo(s, "lock")
  /\ lock' = NoOne
  /\ lockOld' = FALSE
  /\ UNCHANGED <<tries, entries, written, expects, file, lost>>

\* listen_socket: sockets that no other process listens on, or none of them local.
\* IceLockAuthFile first breaks a lock that is too old.
ListenSocket(s) ==
  /\ stage[s] = "off"
  /\ \A o \in Session \ {s} : NetOf[o] = NetOf[s] => stage[o] \in {"off", "dead"}
  /\ \/ /\ GoTo(s, "lock")
        /\ lock' = IF lockOld THEN NoOne ELSE lock
        /\ lockOld' = FALSE
     \/ /\ GoTo(s, "deaf")
        /\ UNCHANGED <<lock, lockOld>>
  /\ UNCHANGED <<tries, entries, written, expects, file, lost>>

IceLock(s) ==
  /\ stage[s] = "lock"
  /\ lock = NoOne
  /\ lock' = s
  /\ GoTo(s, "update")
  /\ UNCHANGED <<tries, entries, written, expects, lockOld, file, lost>>

\* Fault: there is always one more retry.
IceLockTakenAgain(s) ==
  /\ stage[s] = "lock"
  /\ lock # NoOne
  /\ UNCHANGED iceVars

\* The lock is still taken after KSM_ICE_AUTH_INTERVAL; after the last retry the
\* session serves without having written anything.
IceLockTaken(s) ==
  /\ stage[s] = "lock"
  /\ lock # NoOne
  /\ tries' = [tries EXCEPT ![s] = @ + 1]
  /\ GoTo(s, IF tries[s] + 1 = LockRetries THEN "serve" ELSE "lock")
  /\ UNCHANGED <<entries, written, expects, lock, lockOld, file, lost>>

\* IceAuthLockError, for another reason than a lock that is taken: there is no
\* retry, and the session serves without having written anything.
IceLockError(s) ==
  /\ stage[s] = "lock"
  /\ GoTo(s, "serve")
  /\ UNCHANGED <<tries, entries, written, expects, lock, lockOld, file, lost>>

\* The entries of the file less those of some network ids.
Without(f, nets) ==
  LET kept[i \in 0 .. Len(f)] ==
        IF i = 0 THEN <<>>
        ELSE IF f[i].net \in nets THEN kept[i - 1] ELSE Append(kept[i - 1], f[i])
  IN  kept[Len(f)]

\* Fault: entries without network id are kept.
KeptWithoutId(s, f) == Without(f, {NetOf[s]})

\* What is kept of the file.
Kept(s, f) == Without(f, {NoNet, NetOf[s]})

\* create_and_store_auth_entry.
OwnEntries(s) ==
  <<[proto |-> "ICE", net |-> NetOf[s], by |-> s],
    [proto |-> "XSMP", net |-> NetOf[s], by |-> s]>>

\* update_ice_authority up to the first write: the file is read, or made.
ReadFile(s) ==
  /\ stage[s] = "update"
  /\ LET f == IF file = NoFile THEN <<>> ELSE file
     IN  /\ file' = f
         /\ entries' = [entries EXCEPT ![s] = Kept(s, f) \o OwnEntries(s)]
  /\ expects' = expects \cup {s}
  /\ GoTo(s, "write")
  /\ UNCHANGED <<tries, written, lock, lockOld, lost>>

\* The file can neither be opened nor made: the session serves without a cookie.
NoFileToWrite(s) ==
  /\ stage[s] = "update"
  /\ GoTo(s, "unlock")
  /\ UNCHANGED <<tries, entries, written, expects, lock, lockOld, file, lost>>

\* What a reader gets once n entries of s are in the file.  They are written over
\* the old ones and the file is not cut: what follows is read as well, or not,
\* depending on the lengths of the entries.
Overwritten(s, n) ==
  {SubSeq(entries[s], 1, n) \o tail :
     tail \in {<<>>, SubSeq(file, n + 1, Len(file))}}

\* A full buffer is written.
WriteBuffer(s) ==
  /\ stage[s] = "write"
  /\ written[s] + Buffer < Len(entries[s])
  /\ written' = [written EXCEPT ![s] = @ + Buffer]
  /\ file' \in Overwritten(s, written[s] + Buffer)
  /\ UNCHANGED <<stage, tries, entries, expects, lock, lockOld, lost>>

\* fclose writes the rest.
CloseFile(s) ==
  /\ stage[s] = "write"
  /\ written[s] + Buffer >= Len(entries[s])
  /\ file' \in Overwritten(s, Len(entries[s]))
  /\ written' = [written EXCEPT ![s] = 0]
  /\ entries' = [entries EXCEPT ![s] = <<>>]
  /\ GoTo(s, "unlock")
  /\ UNCHANGED <<tries, expects, lock, lockOld, lost>>

\* Fault: the file is unlocked before it is closed.
UnlockEarly(s) ==
  \/ /\ stage[s] = "write"
     /\ lock = s
     /\ lock' = NoOne
     /\ UNCHANGED <<stage, tries, entries, written, expects, lockOld, file, lost>>
  \/ /\ stage[s] = "unlock"
     /\ GoTo(s, "serve")
     /\ UNCHANGED <<tries, entries, written, expects, lock, lockOld, file, lost>>

\* IceUnlockAuthFile, whoever made the lock; then SESSION_MANAGER is set and the
\* sockets are watched.
Unlock(s) ==
  /\ stage[s] = "unlock"
  /\ lock' = NoOne
  /\ lockOld' = FALSE
  /\ GoTo(s, "serve")
  /\ UNCHANGED <<tries, entries, written, expects, file, lost>>

\* IceGetAuthFileEntry: the first entry for a network id and a protocol counts.
EntryFor(net, proto) == {e \in Entry : e.net = net /\ e.proto = proto}
FirstIs(f, net, proto, s) ==
  \E i \in DOMAIN f :
    /\ f[i] \in EntryFor(net, proto) /\ f[i].by = s
    /\ \A j \in DOMAIN f : f[j] \in EntryFor(net, proto) => i <= j

\* A client of s finds the cookies of s in f.
Finds(f, s) == \A proto \in Protocol : FirstIs(f, NetOf[s], proto, s)

\* The sessions whose cookies are not in the file when s dies between two writes.
CutOff(s) ==
  {o \in expects : written[s] > 0 /\ stage[o] = "serve" /\ ~Finds(file, o)}

\* The daemon ends; a lock it holds and what it wrote stay.
Die(s) ==
  /\ stage[s] \notin {"off", "dead"}
  /\ GoTo(s, "dead")
  /\ lost' = lost \cup CutOff(s)
  /\ UNCHANGED <<tries, entries, written, expects, lock, lockOld, file>>

\* Sixteen seconds: no update takes that long, so the holder is dead.
LockGetsOld ==
  /\ lock # NoOne
  /\ stage[lock] = "dead"
  /\ lockOld' = TRUE
  /\ UNCHANGED <<stage, tries, entries, written, expects, lock, file, lost>>

SessionStep(s) ==
  \/ IceLock(s) \/ IceLockTaken(s)
  \/ ReadFile(s) \/ NoFileToWrite(s)
  \/ WriteBuffer(s) \/ CloseFile(s) \/ Unlock(s)

IceNext ==
  \/ \E s \in Session : ListenSocket(s) \/ SessionStep(s) \/ IceLockError(s) \/ Die(s)
  \/ LockGetsOld

\* listen_socket runs to its end: nothing in it waits but the retries.
IceSpec ==
  IceInit /\ [][IceNext]_iceVars /\ \A s \in Session : WF_iceVars(SessionStep(s))

-----------------------------------------------------------------------------
\* A session is between two writes.
HalfWritten == \E s \in Session : stage[s] = "write" /\ written[s] > 0

\* Between updates, a client of a session that serves finds the cookie that the
\* session expects, whatever sessions came and went: no update loses the entries of
\* another session, and stale ones of the same network id do not come first.  What a
\* death between two writes cuts off is lost there and then; nobody else loses a
\* cookie to it, then or later (update_ice_authority).
ClientsCanAuthenticate ==
  ~HalfWritten =>
    \A s \in expects \ lost : stage[s] = "serve" => file # NoFile /\ Finds(file, s)

\* Nobody else holds the lock, or reads or writes the file, while a session does:
\* neither a lock that was broken nor a retry lets two of them in.
UpdatesExclude == \A s \in Session : stage[s] \in {"update", "write", "unlock"} => lock = s

\* A session gets round to serving its clients, also when the lock is never
\* released (KSM_ICE_AUTH_RETRIES).
SessionServes ==
  \A s \in Session : stage[s] = "lock" ~> stage[s] \in {"serve", "dead"}
=============================================================================
