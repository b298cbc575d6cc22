----------------------------- MODULE DeviceAuth ------------------------------
(***************************************************************************)
(* The device identity and the device tokens: src/src/auth.rs, the         *)
(* handshake of src/src/ws.rs (connect, read_challenge, validate_hello_ok, *)
(* persist_device_token), and the commands pair, auth status and auth      *)
(* reset of src/src/main.rs.                                               *)
(*                                                                         *)
(* Every ocb process shares two files, the identity "id" and the token map *)
(* "tok".  Each is published through one temporary name that all processes *)
(* use, without a lock.  A call of the file system is a step, so that      *)
(* processes interleave between any two, and a process may be killed at    *)
(* any of them.  Besides the processes, whoever owns the directory may     *)
(* delete the identity file, which is how the documentation rotates a key  *)
(* (auth.rs:10, 106-107), and the file may be damaged from outside.        *)
(*                                                                         *)
(* The n-th identity generated is the number n.  A token is the identity   *)
(* it was issued to; 0 stands for none.  Keys, signatures and JSON are     *)
(* left out: a file parses or it does not.                                 *)
(***************************************************************************)
EXTENDS Naturals

CONSTANTS
  Proc,      \* slots for ocb processes
  Role,      \* roles a token may be issued for
  Operator,  \* the role whose token is sent (auth.rs:256, ws.rs:51)
  MaxKeys    \* bound on the identities generated

ASSUME RoleAssumption == Operator \in Role
ASSUME KeysAssumption == MaxKeys \in Nat

VARIABLES
  file,       \* the two files
  tmp,        \* the temporary file of each
  made,       \* identities generated so far
  pc,         \* what a process does next
  then,       \* where it goes with the identity it is about to load
  cache,      \* DEVICE_IDENTITY of the process (a OnceLock)
  sent,       \* the device token of its connect request
  kind,       \* the file it is publishing
  data,       \* what it publishes there
  fd,         \* where the file it opened as temporary is now
  contended,  \* history: two processes were between their reads and writes at once
  pulled,     \* history: the identity on file went while a process used it
  orphaned    \* history: it went, and the tokens issued to it are still there

store == <<file, tmp, made>>
vars  == <<file, tmp, made, pc, then, cache, sent, kind, data, fd, contended, pulled, orphaned>>

-----------------------------------------------------------------------------
(* Data.                                                                   *)

Kind    == {"id", "tok"}
NoToken == [r \in Role |-> 0]

\* The content of either file: an identity, or a map of tokens, if it is "json".
Content     == [is : {"missing", "empty", "mixed", "damaged", "json"}, key : Nat,
                tokens : [Role -> Nat]]
Unread(is)  == [is |-> is, key |-> 0, tokens |-> NoToken]
Absent      == Unread("missing")
Identity(n) == [is |-> "json", key |-> n, tokens |-> NoToken]
TokenMap(t) == [is |-> "json", key |-> 0, tokens |-> t]
Exists(k)   == file[k].is # "missing"
Readable(k) == file[k].is = "json"
Parses(k)   == Exists(k) => Readable(k)
Torn(k)     == file[k].is \in {"empty", "mixed"}
InUse       == \E p \in Proc : cache[p] # 0
OnFile(n)   == Readable("id") /\ file["id"].key = n

\* The token map a process starts from: the default if there is none to read.
Tokens == IF Readable("tok") THEN file["tok"].tokens ELSE NoToken

\* An error of either file system call, or of the connection, ends the operation.
Goto(p, l) == pc' = [pc EXCEPT ![p] = l]
Locations  == {"idle", "status", "challenge", "loadtok", "hello", "remove", "generate",
               "truncate", "write", "rename", "drop", "resetid", "resettok"}

\* Between a read of a file and the write that depends on it.
Critical(p) == pc[p] \notin {"idle", "status", "challenge", "hello"}

\* An open file follows its inode: from the temporary name to the final one, and
\* out of the directory when that name is removed or replaced.
Follow(k, moved) ==
  fd' = [q \in Proc |-> IF pc[q] = "write" /\ kind[q] = k /\ fd[q] \in DOMAIN moved
                          THEN moved[fd[q]] ELSE fd[q]]

Init ==
  /\ file = [k \in Kind |-> Absent]
  /\ tmp = [k \in Kind |-> Absent]
  /\ made = 0
  /\ pc = [p \in Proc |-> "idle"]
  /\ then = [p \in Proc |-> "idle"]
  /\ cache = [p \in Proc |-> 0]
  /\ sent = [p \in Proc |-> 0]
  /\ kind = [p \in Proc |-> "id"]
  /\ data = [p \in Proc |-> Absent]
  /\ fd = [p \in Proc |-> "tmp"]
  /\ contended = FALSE
  /\ pulled = FALSE
  /\ orphaned = FALSE

-----------------------------------------------------------------------------
(* The identity.                                                           *)

\* Mutants: without an identity the handshake goes on; the file is never read.
LoadIdentityOptional(p, next) ==
  /\ Goto(p, next)
  /\ IF cache[p] = 0 /\ Readable("id")
       THEN cache' = [cache EXCEPT ![p] = file["id"].key] ELSE UNCHANGED cache
  /\ UNCHANGED then

LoadIdentityAnew(p, next) ==
  \/ cache[p] # 0 /\ Goto(p, next) /\ UNCHANGED <<cache, then>>
  \/ /\ cache[p] = 0
     /\ then' = [then EXCEPT ![p] = next]
     /\ Goto(p, "generate") /\ UNCHANGED cache

\* load_device_identity: the process's own copy, else the file; a file that
\* does not parse is to be removed, and one that is not there generated.
LoadIdentity(p, next) ==
  \/ /\ cache[p] # 0
     /\ Goto(p, next) /\ UNCHANGED <<cache, then>>
  \/ /\ cache[p] = 0 /\ Readable("id")
     /\ cache' = [cache EXCEPT ![p] = file["id"].key]
     /\ Goto(p, next) /\ UNCHANGED then
  \/ /\ cache[p] = 0 /\ ~Readable("id")
     /\ then' = [then EXCEPT ![p] = next]
     /\ Goto(p, IF Exists("id") THEN "remove" ELSE "generate")
     /\ UNCHANGED cache

\* The removal takes whatever file is there by now.
RemoveBad(p) ==
  /\ pc[p] = "remove"
  /\ file' = [file EXCEPT !["id"] = Absent]
  /\ Follow("id", [file |-> "gone"])
  /\ Goto(p, "generate")
  /\ UNCHANGED <<tmp, made, then, cache, sent, kind, data, pulled, orphaned>>

\* generate_and_persist_identity: a fresh key to publish, or an error of the
\* file system.
Generate(p) ==
  /\ pc[p] = "generate"
  /\ \/ /\ made < MaxKeys
        /\ made' = made + 1
        /\ kind' = [kind EXCEPT ![p] = "id"]
        /\ data' = [data EXCEPT ![p] = Identity(made + 1)]
        /\ Goto(p, "truncate")
        /\ UNCHANGED then
     \/ /\ then' = [then EXCEPT ![p] = "idle"]
        /\ Goto(p, "idle") /\ UNCHANGED <<made, kind, data>>
  /\ UNCHANGED <<file, tmp, cache, sent, fd, pulled, orphaned>>

-----------------------------------------------------------------------------
(* Publishing a file: fs::write opens and truncates the temporary file,    *)
(* then writes; the rename follows.                                        *)

\* Mutant: the file is written in place.
TruncateInPlace(p) ==
  /\ pc[p] = "truncate"
  /\ file' = [file EXCEPT ![kind[p]] = Unread("empty")]
  /\ fd' = [fd EXCEPT ![p] = "file"]
  /\ Goto(p, "write")
  /\ UNCHANGED <<tmp, made, then, cache, sent, kind, data, pulled, orphaned>>

Truncate(p) ==
  /\ pc[p] = "truncate"
  /\ tmp' = [tmp EXCEPT ![kind[p]] = Unread("empty")]
  /\ fd' = [fd EXCEPT ![p] = "tmp"]
  /\ Goto(p, "write")
  /\ UNCHANGED <<file, made, then, cache, sent, kind, data, pulled, orphaned>>

\* What a write leaves in a file opened by two: identities have one length,
\* token maps may leave a tail of the longer one.
Overwrite(p, old) ==
  {data[p]} \cup (IF kind[p] = "tok" /\ old.is \notin {"missing", "empty"}
                          THEN {Unread("mixed")} ELSE {})

Write(p) ==
  /\ pc[p] = "write"
  /\ LET k == kind[p] IN
     \/ /\ fd[p] = "tmp"
        /\ \E c \in Overwrite(p, tmp[k]) : tmp' = [tmp EXCEPT ![k] = c]
        /\ UNCHANGED file
     \/ /\ fd[p] = "file"
        /\ \E c \in Overwrite(p, file[k]) : file' = [file EXCEPT ![k] = c]
        /\ UNCHANGED tmp
     \/ fd[p] = "gone" /\ UNCHANGED <<file, tmp>>
  /\ fd' = [fd EXCEPT ![p] = "tmp"]
  /\ Goto(p, "rename")
  /\ UNCHANGED <<made, then, cache, sent, kind, data, pulled, orphaned>>

\* The new identity is cached; the new tokens end the handshake.
Rename(p) ==
  /\ pc[p] = "rename" /\ tmp[kind[p]].is # "missing"
  /\ file' = [file EXCEPT ![kind[p]] = tmp[kind[p]]]
  /\ tmp' = [tmp EXCEPT ![kind[p]] = Absent]
  /\ Follow(kind[p], [tmp |-> "file", file |-> "gone"])
  /\ data' = [data EXCEPT ![p] = Absent]
  /\ then' = [then EXCEPT ![p] = "idle"]
  /\ kind' = [kind EXCEPT ![p] = "id"]
  /\ IF kind[p] = "id"
       THEN cache' = [cache EXCEPT ![p] = data[p].key] /\ Goto(p, then[p])
       ELSE Goto(p, "idle") /\ UNCHANGED cache
  /\ UNCHANGED <<made, sent, pulled, orphaned>>

\* Another process renamed or removed the file: an error for the identity, and
\* for the tokens a warning and the removal of the temporary file.
RenameFails(p) ==
  /\ pc[p] = "rename" /\ tmp[kind[p]].is = "missing"
  /\ data' = [data EXCEPT ![p] = Absent]
  /\ then' = [then EXCEPT ![p] = "idle"]
  /\ kind' = [kind EXCEPT ![p] = "id"]
  /\ Goto(p, IF kind[p] = "id" THEN "idle" ELSE "drop")
  /\ UNCHANGED <<file, tmp, made, cache, sent, fd, pulled, orphaned>>

DropTmp(p) ==
  /\ pc[p] = "drop"
  /\ tmp' = [tmp EXCEPT !["tok"] = Absent]
  /\ Follow("tok", [tmp |-> "gone"])
  /\ Goto(p, "idle")
  /\ UNCHANGED <<file, made, then, cache, sent, kind, data, pulled, orphaned>>

-----------------------------------------------------------------------------
(* The handshake: the challenge, the connect request with the identity and *)
(* the operator's token, the hello-ok.                                     *)

Connect(p) ==
  /\ pc[p] = "idle"
  /\ Goto(p, "challenge")
  /\ UNCHANGED <<store, then, cache, sent, kind, data, fd, pulled, orphaned>>

Challenge(p) ==
  /\ pc[p] = "challenge"
  /\ LoadIdentity(p, "loadtok")
  /\ UNCHANGED <<store, sent, kind, data, fd, pulled, orphaned>>

\* load_device_token, and the request; a token file that does not parse is an
\* error of the connection.
LoadToken(p) ==
  /\ pc[p] = "loadtok"
  /\ \/ /\ Parses("tok")
        /\ sent' = [sent EXCEPT ![p] = Tokens[Operator]]
        /\ Goto(p, "hello")
     \/ ~Parses("tok") /\ Goto(p, "idle") /\ UNCHANGED sent
  /\ UNCHANGED <<store, then, cache, kind, data, fd, pulled, orphaned>>

\* Mutant: the map is started afresh.
HelloTokenAlone(p, r) ==
  /\ pc[p] = "hello"
  /\ sent' = [sent EXCEPT ![p] = 0]
  /\ kind' = [kind EXCEPT ![p] = "tok"]
  /\ data' = [data EXCEPT ![p] = TokenMap([NoToken EXCEPT ![r] = cache[p]])]
  /\ Goto(p, "truncate")
  /\ UNCHANGED <<store, then, cache, fd, pulled, orphaned>>

\* hello-ok with a token for a role: persist_device_token reads the map at once,
\* in the same call.
HelloToken(p, r) ==
  /\ pc[p] = "hello"
  /\ sent' = [sent EXCEPT ![p] = 0]
  /\ kind' = [kind EXCEPT ![p] = "tok"]
  /\ data' = [data EXCEPT ![p] = TokenMap([Tokens EXCEPT ![r] = cache[p]])]
  /\ Goto(p, "truncate")
  /\ UNCHANGED <<store, then, cache, fd, pulled, orphaned>>

\* hello-ok without a token.
Hello(p) ==
  /\ pc[p] = "hello"
  /\ sent' = [sent EXCEPT ![p] = 0]
  /\ Goto(p, "idle")
  /\ UNCHANGED <<store, then, cache, kind, data, fd, pulled, orphaned>>

\* Rejected, closed, a frame that does not parse, or HANDSHAKE_TIMEOUT: the
\* timer only fires where the handshake waits.
HandshakeFails(p) ==
  /\ pc[p] \in {"challenge", "hello"}
  /\ sent' = [sent EXCEPT ![p] = 0]
  /\ Goto(p, "idle")
  /\ UNCHANGED <<store, then, cache, kind, data, fd, pulled, orphaned>>

-----------------------------------------------------------------------------
(* The commands.  Every other command that talks to the gateway is Connect.*)

Pair(p) ==
  /\ pc[p] = "idle"
  /\ LoadIdentity(p, "challenge")
  /\ UNCHANGED <<store, sent, kind, data, fd, pulled, orphaned>>

\* The identity is loaded only if its file is there, by a call of its own.
StatusLooks(p) ==
  /\ pc[p] = "idle" /\ Exists("id")
  /\ Goto(p, "status")
  /\ UNCHANGED <<store, then, cache, sent, kind, data, fd, pulled, orphaned>>

StatusLoads(p) ==
  /\ pc[p] = "status"
  /\ LoadIdentity(p, "idle")
  /\ UNCHANGED <<store, sent, kind, data, fd, pulled, orphaned>>

ResetLooks(p) ==
  /\ pc[p] = "idle" /\ cache[p] = 0
  /\ \/ Exists("id") /\ Goto(p, "resetid")
     \/ ~Exists("id") /\ Exists("tok") /\ Goto(p, "resettok")
  /\ UNCHANGED <<store, then, cache, sent, kind, data, fd, pulled, orphaned>>

\* Mutant: the tokens stay.
ResetIdentityOnly(p) ==
  /\ pc[p] = "resetid"
  /\ file' = [file EXCEPT !["id"] = Absent]
  /\ Follow("id", [file |-> "gone"])
  /\ Goto(p, "idle")
  /\ pulled' = (pulled \/ InUse)
  /\ UNCHANGED <<tmp, made, then, cache, sent, kind, data, orphaned>>

\* A file that is gone by now is an error, and the tokens stay.
ResetIdentity(p) ==
  /\ pc[p] = "resetid"
  /\ file' = [file EXCEPT !["id"] = Absent]
  /\ Follow("id", [file |-> "gone"])
  /\ Goto(p, IF Exists("id") /\ Exists("tok") THEN "resettok" ELSE "idle")
  /\ pulled' = (pulled \/ InUse)
  /\ UNCHANGED <<tmp, made, then, cache, sent, kind, data, orphaned>>

ResetTokens(p) ==
  /\ pc[p] = "resettok"
  /\ file' = [file EXCEPT !["tok"] = Absent]
  /\ Follow("tok", [file |-> "gone"])
  /\ Goto(p, "idle")
  /\ orphaned' = FALSE
  /\ UNCHANGED <<tmp, made, then, cache, sent, kind, data, pulled>>

\* The process ends, or is killed between any two calls; the files stay as they
\* are.
Exit(p) ==
  /\ pc[p] # "idle" \/ cache[p] # 0
  /\ Goto(p, "idle")
  /\ cache' = [cache EXCEPT ![p] = 0]
  /\ sent' = [sent EXCEPT ![p] = 0]
  /\ data' = [data EXCEPT ![p] = Absent]
  /\ then' = [then EXCEPT ![p] = "idle"]
  /\ kind' = [kind EXCEPT ![p] = "id"]
  /\ fd' = [fd EXCEPT ![p] = "tmp"]
  /\ orphaned' = (orphaned \/ pc[p] = "resettok")
  /\ UNCHANGED <<store, pulled>>

-----------------------------------------------------------------------------
(* From outside, at any time: the identity file is deleted, or damaged.    *)
(* Nobody tells the processes that use it, and the tokens stay.            *)

IdentityGoes(left) ==
  /\ file' = [file EXCEPT !["id"] = left]
  /\ pulled' = (pulled \/ InUse)
  /\ orphaned' = (orphaned \/ Exists("tok"))
  /\ UNCHANGED <<tmp, made, pc, then, cache, sent, kind, data>>

DeleteIdentity ==
  /\ Exists("id")
  /\ IdentityGoes(Absent)
  /\ Follow("id", [file |-> "gone"])

DamageIdentity ==
  /\ Readable("id")
  /\ IdentityGoes(Unread("damaged"))
  /\ UNCHANGED fd

-----------------------------------------------------------------------------

Step(p) ==
  \/ RemoveBad(p) \/ Generate(p)
  \/ Truncate(p) \/ Write(p) \/ Rename(p) \/ RenameFails(p) \/ DropTmp(p)
  \/ Connect(p) \/ Challenge(p) \/ LoadToken(p) \/ Hello(p) \/ HandshakeFails(p)
  \/ \E r \in Role : HelloToken(p, r)
  \/ Pair(p) \/ StatusLooks(p) \/ StatusLoads(p)
  \/ ResetLooks(p) \/ ResetIdentity(p) \/ ResetTokens(p)
  \/ Exit(p)

Overlap == \E p, q \in Proc : p # q /\ Critical(p) /\ Critical(q)

Next == /\ (\E p \in Proc : Step(p)) \/ DeleteIdentity \/ DamageIdentity
        /\ contended' = (contended \/ Overlap')

Spec == Init /\ [][Next]_vars

-----------------------------------------------------------------------------
(* Properties.                                                             *)

\* Types; and a process that asks to connect, or persists a token, has an
\* identity (ws.rs:183-239).
TypeOK ==
  /\ file \in [Kind -> Content] /\ tmp \in [Kind -> Content]
  /\ made \in 0 .. MaxKeys
  /\ pc \in [Proc -> Locations] /\ then \in [Proc -> {"idle", "challenge", "loadtok"}]
  /\ cache \in [Proc -> Nat] /\ sent \in [Proc -> Nat]
  /\ kind \in [Proc -> Kind] /\ data \in [Proc -> Content]
  /\ fd \in [Proc -> {"tmp", "file", "gone"}]
  /\ contended \in BOOLEAN /\ pulled \in BOOLEAN /\ orphaned \in BOOLEAN
  /\ \A p \in Proc : pc[p] \in {"loadtok", "hello"} => cache[p] # 0

\* As long as no two processes overlapped, neither file is ever torn by the
\* program, wherever processes were killed; what is damaged from outside is
\* replaced whole (auth.rs:145-164, 203-216, ws.rs:1143-1164).
FilesWhole == ~contended => \A k \in Kind : ~Torn(k)

\* As long as no two processes overlapped, and the identity file was neither
\* removed nor damaged under a process that used it, the identity a process
\* goes on using is the one on file, the one every later process will use
\* (auth.rs:104-135).
UsesStored ==
  ~contended /\ ~pulled =>
    \A p \in Proc : cache[p] # 0 => OnFile(cache[p])

\* Under the same conditions a connect request carries a token of its own
\* identity, though the two are kept in two files, unless the identity went
\* from under its tokens: deleted by hand, damaged, or removed by a reset that
\* was killed half way.  The next whole reset ends even that (ws.rs:183-222,
\* main.rs:966-986).
TokenIsOwn ==
  ~contended /\ ~pulled /\ ~orphaned =>
    \A p \in Proc : pc[p] = "hello" => sent[p] \in {0, cache[p]}

\* A token persisted for one role keeps those of the others; only a reset
\* removes one (ws.rs:1097-1125).
KeepsRoles == \A r \in Role : Tokens[r] # 0 => Tokens'[r] # 0
RolesKept ==
  [][contended' \/ (\E p \in Proc : pc[p] = "resettok") \/ KeepsRoles]_vars

=============================================================================
