-------------------------- MODULE DeviceAuthProofs ---------------------------
(***************************************************************************)
(* What the two files of the device hold, for any number of processes,     *)
(* roles and identities: the types; and, as long as no two processes       *)
(* overlapped between a read and the write that depends on it, that        *)
(* neither file is torn; that every process uses the identity on file,     *)
(* unless that went while it was in use; and that it sends a token of that *)
(* identity, unless the identity went from under its tokens.               *)
(***************************************************************************)
EXTENDS DeviceAuth, TLAPS

Publishing(p) == pc[p] \in {"truncate", "write", "rename"}

-----------------------------------------------------------------------------
(* Types.                                                                  *)

\* A file that parses as an identity names one.
Named(c) == c.is = "json" => c.key # 0

TInv ==
  /\ TypeOK
  /\ Named(file["id"]) /\ Named(tmp["id"])
  /\ \A p \in Proc : Publishing(p) =>
       data[p].is = "json" /\ (kind[p] = "id" => Named(data[p]))

LEMMA ContentTypes ==
  /\ NoToken \in [Role -> Nat]
  /\ Absent \in Content /\ Named(Absent)
  /\ \A is \in {"missing", "empty", "mixed", "damaged"} :
       Unread(is) \in Content /\ Named(Unread(is))
  /\ \A n \in Nat : Identity(n) \in Content /\ Identity(n).key = n /\ Identity(n).is = "json"
  /\ \A t \in [Role -> Nat] : TokenMap(t) \in Content /\ TokenMap(t).tokens = t
                              /\ TokenMap(t).is = "json"
BY DEF NoToken, Absent, Unread, Identity, TokenMap, Content, Named

LEMMA FollowTyped ==
  ASSUME NEW k, NEW moved, TypeOK, Follow(k, moved),
         \A f \in DOMAIN moved : moved[f] \in {"tmp", "file", "gone"}
  PROVE  fd' \in [Proc -> {"tmp", "file", "gone"}]
BY DEF Follow, TypeOK

LEMMA LoadTyped ==
  ASSUME TInv, NEW p \in Proc, NEW next \in {"idle", "challenge", "loadtok"},
         pc[p] \in {"idle", "status", "challenge"}, LoadIdentity(p, next)
  PROVE  /\ pc' \in [Proc -> Locations]
         /\ then' \in [Proc -> {"idle", "challenge", "loadtok"}]
         /\ cache' \in [Proc -> Nat]
         /\ \A q \in Proc : pc'[q] \in {"loadtok", "hello"} => cache'[q] # 0
         /\ \A q \in Proc : Publishing(q)' <=> Publishing(q)
<1> USE DEF TInv, TypeOK, Goto, Locations, Publishing
<1>1. CASE cache[p] # 0
  BY <1>1 DEF LoadIdentity
<1>2. CASE cache[p] = 0 /\ Readable("id")
  <2>1. file["id"].key \in Nat /\ file["id"].key # 0
    BY <1>2 DEF Kind, Content, Readable, Named
  <2> QED BY <1>2, <2>1 DEF LoadIdentity
<1>3. CASE cache[p] = 0 /\ ~Readable("id")
  BY <1>3 DEF LoadIdentity
<1> QED BY <1>1, <1>2, <1>3

LEMMA TypeOutside ==
  ASSUME TInv, DeleteIdentity \/ DamageIdentity, contended' \in BOOLEAN
  PROVE  TInv'
<1>1. fd' \in [Proc -> {"tmp", "file", "gone"}]
  BY FollowTyped DEF DeleteIdentity, DamageIdentity, TInv, TypeOK
<1>2. file' \in [Kind -> Content] /\ Named(file'["id"])
  BY ContentTypes DEF DeleteIdentity, DamageIdentity, IdentityGoes, TInv, TypeOK, Kind
<1> QED BY <1>1, <1>2 DEF DeleteIdentity, DamageIdentity, IdentityGoes, TInv, TypeOK, Publishing

LEMMA TypeStep == TInv /\ Next => TInv'
<1>0. (DeleteIdentity \/ DamageIdentity) /\ TInv /\ Next => TInv'
  BY TypeOutside DEF Next, TInv, TypeOK
<1> SUFFICES ASSUME TInv, NEW p \in Proc, Step(p),
                    contended' = (contended \/ Overlap')
             PROVE  TInv'
  BY <1>0 DEF Next
<1> USE DEF Kind, store
<1>00. contended' \in BOOLEAN
  BY DEF TInv, TypeOK
<1>1. CASE RemoveBad(p)
  <2>1. fd' \in [Proc -> {"tmp", "file", "gone"}]
    BY <1>1, FollowTyped DEF RemoveBad, TInv
  <2>2. file' \in [Kind -> Content] /\ Named(file'["id"])
    BY <1>1, ContentTypes DEF RemoveBad, TInv, TypeOK
  <2> QED BY <1>00, <1>1, <2>1, <2>2 DEF RemoveBad, TInv, TypeOK, Goto, Locations, Publishing
<1>2. CASE Generate(p)
  <2>1. CASE made < MaxKeys
    <3>1. Identity(made + 1) \in Content /\ made + 1 \in Nat /\ Named(Identity(made + 1))
      BY ContentTypes DEF TInv, TypeOK, Named
    <3>2. Identity(made + 1).is = "json" /\ made + 1 \in 0 .. MaxKeys
      BY <2>1, ContentTypes, KeysAssumption DEF TInv, TypeOK
    <3> QED BY <1>00, <1>2, <2>1, <3>1, <3>2
            DEF Generate, TInv, TypeOK, Goto, Locations, Publishing
  <2>2. CASE UNCHANGED made
    BY <1>00, <1>2, <2>2 DEF Generate, TInv, TypeOK, Goto, Locations, Publishing
  <2> QED BY <1>2, <2>1, <2>2 DEF Generate
<1>3. CASE Truncate(p)
  BY <1>00, <1>3, ContentTypes DEF Truncate, TInv, TypeOK, Goto, Locations, Publishing
<1>4. CASE Write(p)
  <2>1. \A c : \A d \in Overwrite(p, c) :
          d \in Content /\ (kind[p] = "id" => Named(d))
    BY <1>4, ContentTypes DEF Write, Overwrite, TInv, TypeOK, Publishing
  <2>2. /\ file' \in [Kind -> Content] /\ tmp' \in [Kind -> Content]
        /\ Named(file'["id"]) /\ Named(tmp'["id"])
    <3>1. kind[p] \in {"id", "tok"}
      BY DEF TInv, TypeOK
    <3> QED BY <1>4, <2>1, <3>1 DEF Write, TInv, TypeOK
  <2> QED BY <1>00, <1>4, <2>2 DEF Write, TInv, TypeOK, Goto, Locations, Publishing
<1>5. CASE Rename(p)
  <2>1. fd' \in [Proc -> {"tmp", "file", "gone"}]
    BY <1>5, FollowTyped DEF Rename, TInv
  <2>2. /\ file' \in [Kind -> Content] /\ tmp' \in [Kind -> Content]
        /\ Named(file'["id"]) /\ Named(tmp'["id"])
    <3>1. kind[p] \in {"id", "tok"}
      BY DEF TInv, TypeOK
    <3> QED BY <1>5, <3>1, ContentTypes DEF Rename, TInv, TypeOK
  <2>3. data[p].key \in Nat /\ (kind[p] = "id" => data[p].key # 0)
    BY <1>5 DEF Rename, TInv, TypeOK, Content, Named, Publishing
  <2>4. data' \in [Proc -> Content] /\ then' \in [Proc -> {"idle", "challenge", "loadtok"}]
        /\ kind' \in [Proc -> Kind]
    BY <1>5, ContentTypes DEF Rename, TInv, TypeOK
  <2>5. /\ pc' \in [Proc -> Locations] /\ cache' \in [Proc -> Nat]
        /\ \A q \in Proc : pc'[q] \in {"loadtok", "hello"} => cache'[q] # 0
    BY <1>5, <2>3 DEF Rename, TInv, TypeOK, Goto, Locations
  <2>6. \A q \in Proc : Publishing(q)' =>
          q # p /\ Publishing(q) /\ data'[q] = data[q] /\ kind'[q] = kind[q]
    BY <1>5 DEF Rename, TInv, TypeOK, Goto, Publishing
  <2> QED BY <1>00, <1>5, <2>1, <2>2, <2>4, <2>5, <2>6 DEF Rename, TInv, TypeOK
<1>6. CASE RenameFails(p)
  BY <1>00, <1>6, ContentTypes DEF RenameFails, TInv, TypeOK, Goto, Locations, Publishing
<1>7. CASE DropTmp(p)
  <2>1. fd' \in [Proc -> {"tmp", "file", "gone"}]
    BY <1>7, FollowTyped DEF DropTmp, TInv
  <2>2. tmp' \in [Kind -> Content] /\ Named(tmp'["id"])
    BY <1>7, ContentTypes DEF DropTmp, TInv, TypeOK
  <2> QED BY <1>00, <1>7, <2>1, <2>2 DEF DropTmp, TInv, TypeOK, Goto, Locations, Publishing
<1>8. CASE Connect(p) \/ Hello(p) \/ HandshakeFails(p) \/ StatusLooks(p) \/ ResetLooks(p)
  BY <1>00, <1>8 DEF Connect, Hello, HandshakeFails, StatusLooks, ResetLooks, TInv, TypeOK, Goto,
     Locations, Publishing
<1>9. CASE Challenge(p) \/ Pair(p) \/ StatusLoads(p)
  <2>1. PICK next \in {"idle", "challenge", "loadtok"} : LoadIdentity(p, next)
    BY <1>9 DEF Challenge, Pair, StatusLoads
  <2>2. /\ pc[p] \in {"idle", "status", "challenge"}
        /\ UNCHANGED <<store, sent, kind, data, fd, pulled, orphaned>>
    BY <1>9 DEF Challenge, Pair, StatusLoads
  <2> QED BY <1>00, <2>1, <2>2, LoadTyped DEF TInv, TypeOK
<1>10. CASE LoadToken(p)
  <2>1. Tokens[Operator] \in Nat
    BY RoleAssumption, ContentTypes DEF Tokens, TInv, TypeOK, Content
  <2> QED BY <1>00, <1>10, <2>1 DEF LoadToken, TInv, TypeOK, Goto, Locations, Publishing
<1>11. ASSUME NEW r \in Role, HelloToken(p, r) PROVE TInv'
  <2>1. [Tokens EXCEPT ![r] = cache[p]] \in [Role -> Nat]
    BY ContentTypes DEF Tokens, TInv, TypeOK, Content
  <2>2. /\ TokenMap([Tokens EXCEPT ![r] = cache[p]]) \in Content
        /\ TokenMap([Tokens EXCEPT ![r] = cache[p]]).is = "json"
    BY <2>1, ContentTypes
  <2> QED BY <1>00, <1>11, <2>2 DEF HelloToken, TInv, TypeOK, Goto, Locations, Publishing
<1>12. CASE ResetIdentity(p)
  <2>1. fd' \in [Proc -> {"tmp", "file", "gone"}]
    BY <1>12, FollowTyped DEF ResetIdentity, TInv
  <2>2. file' \in [Kind -> Content] /\ Named(file'["id"])
    BY <1>12, ContentTypes DEF ResetIdentity, TInv, TypeOK
  <2> QED BY <1>00, <1>12, <2>1, <2>2 DEF ResetIdentity, TInv, TypeOK, Goto, Locations, Publishing
<1>13. CASE ResetTokens(p)
  <2>1. fd' \in [Proc -> {"tmp", "file", "gone"}]
    BY <1>13, FollowTyped DEF ResetTokens, TInv
  <2>2. file' \in [Kind -> Content] /\ Named(file'["id"])
    BY <1>13, ContentTypes DEF ResetTokens, TInv, TypeOK
  <2> QED BY <1>00, <1>13, <2>1, <2>2 DEF ResetTokens, TInv, TypeOK, Goto, Locations, Publishing
<1>14. CASE Exit(p)
  <2>1. Absent \in Content
    BY ContentTypes
  <2> QED BY <1>00, <1>14, <2>1 DEF Exit, TInv, TypeOK, Goto, Locations, Publishing
<1> QED BY <1>1, <1>2, <1>3, <1>4, <1>5, <1>6, <1>7, <1>8, <1>9, <1>10, <1>11, <1>12, <1>13, <1>14
        DEF Step

LEMMA TypeInit == Init => TInv
<1>1. Absent \in Content /\ Named(Absent) /\ 0 \in 0 .. MaxKeys
  BY ContentTypes, KeysAssumption
<1> SUFFICES ASSUME Init PROVE TInv
  OBVIOUS
<1>2. file \in [Kind -> Content] /\ tmp \in [Kind -> Content]
      /\ Named(file["id"]) /\ Named(tmp["id"])
  BY <1>1 DEF Init, Kind
<1>3. TypeOK
  BY <1>1, <1>2 DEF Init, TypeOK, Kind, Locations
<1> QED BY <1>2, <1>3 DEF Init, TInv, Publishing

LEMMA TypeStutter == TInv /\ UNCHANGED vars => TInv'
BY DEF vars, TInv, TypeOK, Publishing, Named

\* Every state has the types of the model, and no connect request is sent
\* without an identity (ws.rs:183-239).
THEOREM Types == Spec => []TypeOK
<1>1. TInv => TypeOK
  BY DEF TInv
<1> QED BY <1>1, TypeInit, TypeStep, TypeStutter, PTL DEF Spec

-----------------------------------------------------------------------------
(* Without overlap.                                                        *)

\* At most one process is between a read and its write; what it read still
\* holds, and the temporary file is its own.
Sound(k) == Readable(k) \/ file[k] = Absent \/ (k = "id" /\ file[k] = Unread("damaged"))

Quiet ==
  /\ ~Overlap
  /\ \A k \in Kind : Sound(k)
  /\ \A p \in Proc :
       /\ pc[p] = "remove" => ~Readable("id")
       /\ pc[p] = "write" => fd[p] = "tmp" /\ tmp[kind[p]] = Unread("empty")
       /\ pc[p] = "rename" => tmp[kind[p]] = data[p]
       /\ pc[p] = "generate" => file["id"] = Absent
       /\ Publishing(p) /\ kind[p] = "id" =>
            file["id"] = Absent /\ data[p] = Identity(data[p].key)
       /\ Publishing(p) /\ kind[p] = "tok" =>
            \A r \in Role : Tokens[r] # 0 => data[p].tokens[r] # 0

\* As long as no identity in use went: the identity of every process is the one
\* on file; and so is that of every token, unless it went from under them.
Owned ==
  /\ \A p \in Proc :
       /\ cache[p] # 0 => OnFile(cache[p])
       /\ pc[p] = "hello" => orphaned \/ sent[p] \in {0, cache[p]}
       /\ Publishing(p) /\ kind[p] = "tok" =>
            /\ cache[p] # 0
            /\ orphaned \/ \A r \in Role : data[p].tokens[r] \in {0, cache[p]}
       /\ pc[p] = "resettok" => file["id"] = Absent
  /\ \/ orphaned
     \/ \E p \in Proc : pc[p] = "resettok"
     \/ \A r \in Role : Tokens[r] \in {0, file["id"].key}

IInv ==
  /\ TInv
  /\ ~contended => Quiet
  /\ ~contended /\ ~pulled => Owned

\* A step of p moves no other process.
LEMMA OthersStay ==
  ASSUME TInv, NEW p \in Proc, Step(p)
  PROVE  \A q \in Proc \ {p} : pc'[q] = pc[q] /\ cache'[q] = cache[q] /\ sent'[q] = sent[q]
                                /\ kind'[q] = kind[q] /\ data'[q] = data[q]
BY ZenonT(40)
   DEF Step, RemoveBad, Generate, Truncate, Write, Rename, RenameFails, DropTmp,
    Connect,
   Challenge, LoadToken, Hello, HandshakeFails, HelloToken, Pair, StatusLooks, StatusLoads,
   ResetLooks, ResetIdentity, ResetTokens, Exit, LoadIdentity, Goto, TInv, TypeOK

\* While p is between a read and its write, before its step or after it, nobody
\* else is.
LEMMA Alone ==
  ASSUME TInv, Quiet, NEW p \in Proc, Step(p), ~Overlap', Critical(p) \/ Critical(p)'
  PROVE  \A q \in Proc \ {p} : ~Critical(q) /\ ~Critical(q)'
<1>1. \A q \in Proc \ {p} : Critical(q)' <=> Critical(q)
  BY OthersStay DEF Critical
<1> QED BY <1>1 DEF Quiet, Overlap

\* What Quiet says of one process.
QuietAt(p) ==
  /\ pc[p] = "remove" => ~Readable("id")
  /\ pc[p] = "write" => fd[p] = "tmp" /\ tmp[kind[p]] = Unread("empty")
  /\ pc[p] = "rename" => tmp[kind[p]] = data[p]
  /\ pc[p] = "generate" => file["id"] = Absent
  /\ Publishing(p) /\ kind[p] = "id" =>
       file["id"] = Absent /\ data[p] = Identity(data[p].key)
  /\ Publishing(p) /\ kind[p] = "tok" =>
       \A r \in Role : Tokens[r] # 0 => data[p].tokens[r] # 0

LEMMA QuietParts ==
  Quiet <=> /\ ~Overlap
            /\ \A k \in Kind : Sound(k)
            /\ \A p \in Proc : QuietAt(p)
BY DEF Quiet, QuietAt

\* A process outside of the critical part has nothing to lose.
LEMMA OutsideQuiet == \A p \in Proc : ~Critical(p) => QuietAt(p)
BY DEF Critical, QuietAt, Publishing

LEMMA QuietStep ==
  ASSUME TInv, Quiet, NEW p \in Proc, Step(p), ~Overlap'
  PROVE  Quiet'
<1> USE DEF Kind, store
<1>1. CASE ~Critical(p) /\ ~Critical(p)'
  <2>1. UNCHANGED file
    BY <1>1 DEF Critical, Step, RemoveBad, Generate, Truncate, Write, Rename, RenameFails, DropTmp,
       Connect, Challenge, LoadToken, Hello, HandshakeFails, HelloToken, Pair, StatusLooks,
       StatusLoads, ResetLooks, ResetIdentity, ResetTokens, Exit
  <2>2. \A q \in Proc \ {p} : ~Critical(q) => ~Critical(q)'
    BY OthersStay DEF Critical
  <2>3. UNCHANGED tmp /\ \A q \in Proc \ {p} : fd'[q] = fd[q]
    BY <1>1 DEF Critical, Step, RemoveBad, Generate, Truncate, Write, Rename, RenameFails, DropTmp,
       Connect, Challenge, LoadToken, Hello, HandshakeFails, HelloToken, Pair, StatusLooks,
       StatusLoads, ResetLooks, ResetIdentity, ResetTokens, Exit, TInv, TypeOK
  <2>4. \A q \in Proc \ {p} : QuietAt(q)'
    BY <2>1, <2>3, OthersStay, QuietParts DEF QuietAt, Publishing, Tokens, Readable
  <2>5. QuietAt(p)'
    BY <1>1 DEF Critical, QuietAt, Publishing
  <2>6. (\A k \in Kind : Sound(k))'
    BY <2>1, QuietParts DEF Readable, Sound
  <2>7. (\A q \in Proc : QuietAt(q))'
    BY <2>4, <2>5
  <2> QED BY <2>6, <2>7 DEF Quiet, QuietAt
<1>2. CASE Critical(p) \/ Critical(p)'
  <2>1. \A q \in Proc \ {p} : ~Critical(q)'
    BY <1>2, Alone
  <2>2. \A q \in Proc \ {p} : QuietAt(q)'
    BY <2>1 DEF Critical, QuietAt, Publishing
  <2>3. SUFFICES (\A k \in Kind : Sound(k))' /\ QuietAt(p)'
    BY <2>2 DEF Quiet, QuietAt
  <2>4. QuietAt(p) /\ \A k \in Kind : Sound(k)
    BY QuietParts
  <2>5. CASE RenameFails(p) \/ DropTmp(p)
    <3>1. data[p].is = "json" /\ pc[p] = "rename" => tmp[kind[p]].is = "json"
      BY <2>4 DEF QuietAt
    <3>2. DropTmp(p)
      BY <2>4, <2>5, <3>1 DEF QuietAt, RenameFails, TInv, Publishing
    <3> QED BY <2>4, <3>2 DEF DropTmp, Goto, QuietAt, Publishing, TInv, TypeOK, Readable, Sound
  <2>5a. CASE RemoveBad(p)
    <3>1. pc'[p] = "generate" /\ file' = [file EXCEPT !["id"] = Absent]
      BY <2>5a DEF RemoveBad, Goto, TInv, TypeOK
    <3>2. file'["id"] = Absent /\ file'["tok"] = file["tok"]
      BY <3>1 DEF TInv, TypeOK
    <3> QED BY <2>4, <3>1, <3>2 DEF QuietAt, Publishing, Readable, Sound
  <2>6. CASE Generate(p)
    <3>1. pc'[p] \in {"truncate", "idle"} /\ UNCHANGED file
      BY <2>6 DEF Generate, Goto, TInv, TypeOK
    <3>2. pc'[p] = "truncate" => kind'[p] = "id" /\ data'[p] = Identity(made + 1)
      BY <2>6 DEF Generate, Goto, TInv, TypeOK
    <3>3. Identity(made + 1).key = made + 1
      BY DEF Identity
    <3> QED BY <2>4, <2>6, <3>1, <3>2, <3>3 DEF Generate, QuietAt, Publishing, Readable, Sound
  <2>7. CASE Truncate(p)
    BY <2>4, <2>7 DEF Truncate, Goto, QuietAt, Publishing, TInv, TypeOK, Readable,
               Tokens, Sound
  <2>8. CASE Write(p)
    <3>1. Overwrite(p, tmp[kind[p]]) = {data[p]}
      BY <2>4, <2>8 DEF Write, QuietAt, Overwrite, Unread
    <3>2. tmp' = [tmp EXCEPT ![kind[p]] = data[p]] /\ UNCHANGED file
      BY <2>4, <2>8, <3>1 DEF Write, QuietAt
    <3> QED BY <2>4, <2>8, <3>2 DEF Write, Goto, QuietAt, Publishing, TInv, TypeOK, Readable, Tokens, Sound
  <2>9. CASE Rename(p)
    <3>1. tmp[kind[p]].is = "json"
      BY <2>4, <2>9 DEF Rename, QuietAt, TInv, Publishing
    <3>2. \A k \in Kind : Sound(k)'
      BY <2>4, <2>9, <3>1 DEF Rename, TInv, TypeOK, Readable, Sound
    <3>3. pc'[p] \in {"idle", "challenge", "loadtok"}
      BY <2>9 DEF Rename, Goto, TInv, TypeOK
    <3> QED BY <3>2, <3>3 DEF QuietAt, Publishing
  <2>10. CASE Connect(p) \/ Hello(p) \/ HandshakeFails(p) \/ StatusLooks(p) \/ LoadToken(p)
              \/ ResetLooks(p)
    <3>1. UNCHANGED file /\ pc'[p] \in {"idle", "status", "challenge", "hello", "resetid",
                                         "resettok"}
      BY <2>10 DEF Connect, Hello, HandshakeFails, StatusLooks, LoadToken, ResetLooks, Goto,
             TInv, TypeOK
    <3> QED BY <2>4, <3>1 DEF QuietAt, Publishing, Readable, Sound
  <2>11. CASE Challenge(p) \/ Pair(p) \/ StatusLoads(p)
    <3>1. PICK next \in {"idle", "challenge", "loadtok"} : LoadIdentity(p, next)
      BY <2>11 DEF Challenge, Pair, StatusLoads
    <3>2. UNCHANGED file
      BY <2>11 DEF Challenge, Pair, StatusLoads
    <3>3. \/ pc'[p] \in {"idle", "challenge", "loadtok"}
          \/ pc'[p] = "generate" /\ file["id"] = Absent
          \/ pc'[p] = "remove" /\ ~Readable("id")
      <4>1. CASE Readable("id") \/ cache[p] # 0
        BY <3>1, <4>1 DEF LoadIdentity, Goto, TInv, TypeOK
      <4>2. CASE cache[p] = 0 /\ ~Readable("id")
        <5>1. ~Exists("id") => file["id"] = Absent
          BY <2>4, <4>2 DEF Sound, Exists, Unread
        <5> QED BY <3>1, <4>2, <5>1 DEF LoadIdentity, Goto, TInv, TypeOK
      <4> QED BY <4>1, <4>2
    <3> QED BY <2>4, <3>2, <3>3 DEF QuietAt, Publishing, Readable, Sound
  <2>12. ASSUME NEW r \in Role, HelloToken(p, r)
         PROVE  (\A k \in Kind : Sound(k))' /\ QuietAt(p)'
    <3>1. UNCHANGED file /\ pc'[p] = "truncate" /\ kind'[p] = "tok"
          /\ data'[p] = TokenMap([Tokens EXCEPT ![r] = cache[p]])
      BY <2>12 DEF HelloToken, Goto, TInv, TypeOK
    <3>2. cache[p] \in Nat /\ cache[p] # 0
      BY <2>12 DEF HelloToken, TInv, TypeOK
    <3>3. Tokens \in [Role -> Nat]
      BY ContentTypes DEF Tokens, TInv, TypeOK, Content
    <3>4. \A s \in Role : Tokens[s] # 0 => data'[p].tokens[s] # 0
      <4>1. [Tokens EXCEPT ![r] = cache[p]] \in [Role -> Nat]
        BY <3>2, <3>3
      <4>2. data'[p].tokens = [Tokens EXCEPT ![r] = cache[p]]
        BY <3>1, <4>1, ContentTypes
      <4> QED BY <3>2, <3>3, <4>2
    <3>5. Tokens' = Tokens
      BY <3>1 DEF Tokens, Readable
    <3> QED BY <2>4, <3>1, <3>4, <3>5 DEF QuietAt, Publishing, Readable, Sound
  <2>13. CASE ResetIdentity(p) \/ ResetTokens(p)
    <3>1. pc'[p] \in {"idle", "resettok"}
      BY <2>13 DEF ResetIdentity, ResetTokens, Goto, TInv, TypeOK
    <3>2. \A k \in Kind : Sound(k)'
      BY <2>4, <2>13 DEF ResetIdentity, ResetTokens, TInv, TypeOK, Readable, Sound
    <3> QED BY <3>1, <3>2 DEF QuietAt, Publishing
  <2>14. CASE Exit(p)
    <3>1. pc'[p] = "idle" /\ UNCHANGED file
      BY <2>14 DEF Exit, Goto, TInv, TypeOK
    <3> QED BY <2>4, <3>1 DEF QuietAt, Publishing, Readable, Sound
  <2> QED BY <2>5, <2>5a, <2>6, <2>7, <2>8, <2>9, <2>10, <2>11, <2>12, <2>13, <2>14 DEF Step
<1> QED BY <1>1, <1>2

LEMMA QuietOutside ==
  ASSUME TInv, Quiet, DeleteIdentity \/ DamageIdentity
  PROVE  Quiet'
<1> USE DEF Kind
<1>1. /\ UNCHANGED <<tmp, pc, kind, data>>
      /\ file'["tok"] = file["tok"] /\ file'["id"] \in {Absent, Unread("damaged")}
      /\ file["id"] # Absent
  BY DEF DeleteIdentity, DamageIdentity, IdentityGoes, TInv, TypeOK, Exists, Readable, Absent,
     Unread
<1>2. \A p \in Proc : fd[p] = "tmp" => fd'[p] = "tmp"
  BY DEF DeleteIdentity, DamageIdentity, Follow
<1>3. Tokens' = Tokens /\ (\A k \in Kind : Sound(k))' /\ ~Readable("id")'
  BY <1>1, QuietParts DEF Tokens, Sound, Readable, Absent, Unread
<1>4. ASSUME NEW p \in Proc PROVE QuietAt(p)'
  BY <1>1, <1>2, <1>3, QuietParts DEF QuietAt, Publishing
<1>5. ~Overlap'
  BY <1>1, QuietParts DEF Overlap, Critical
<1> QED BY <1>3, <1>4, <1>5 DEF Quiet, QuietAt

-----------------------------------------------------------------------------
(* Without a reset of an identity in use.                                  *)

LEMMA OwnedStep ==
  ASSUME TInv, Quiet, Owned, NEW p \in Proc, Step(p), ~Overlap', ~pulled'
  PROVE  Owned'
<1> USE DEF Kind, store, OnFile, Readable
<1> DEFINE Resetting == \E q \in Proc : pc[q] = "resettok"
           TokensMatch == \A r \in Role : Tokens[r] \in {0, file["id"].key}
           OwnedAt(q) ==
             /\ cache[q] # 0 => OnFile(cache[q])
             /\ pc[q] = "hello" => orphaned \/ sent[q] \in {0, cache[q]}
             /\ Publishing(q) /\ kind[q] = "tok" =>
                  /\ cache[q] # 0
                  /\ orphaned \/ \A r \in Role : data[q].tokens[r] \in {0, cache[q]}
             /\ pc[q] = "resettok" => file["id"] = Absent
           Matched == orphaned \/ Resetting \/ TokensMatch
<1>a. /\ \A q \in Proc : OwnedAt(q)
      /\ Matched
  BY DEF Owned
<1>b. SUFFICES (\A q \in Proc : OwnedAt(q))' /\ Matched'
  BY DEF Owned
<1>c. Absent.key = 0 /\ Absent.tokens = NoToken /\ Absent.is = "missing"
  BY DEF Absent, Unread
<1>d. \A n \in Nat : Identity(n).key = n
  BY ContentTypes
<1>e. cache[p] \in Nat
  BY DEF TInv, TypeOK
<1>f. QuietAt(p) /\ \A k \in Kind : Sound(k)
  BY QuietParts
<1>g. pc[p] # "resettok" => orphaned' = orphaned
  BY ZenonT(40) DEF TInv, TypeOK, Step, RemoveBad, Generate, Truncate, Write, Rename, RenameFails, DropTmp, Connect,
     Challenge, LoadToken, Hello, HandshakeFails, HelloToken, Pair, StatusLooks, StatusLoads,
     ResetLooks, ResetIdentity, ResetTokens, Exit
\* Steps that leave the files alone.
<1>1. ASSUME UNCHANGED file, OwnedAt(p)', pc[p] # "resettok"
      PROVE  (\A q \in Proc : OwnedAt(q))' /\ Matched'
  <2>1. \A q \in Proc \ {p} : OwnedAt(q)'
    BY <1>1, <1>a, <1>g, OthersStay DEF Publishing
  <2>2. Resetting => Resetting'
    BY <1>1, OthersStay
  <2>3. TokensMatch => TokensMatch'
    BY <1>1 DEF Tokens, Readable
  <2> QED BY <1>1, <1>a, <1>g, <2>1, <2>2, <2>3
<1>2. CASE RemoveBad(p)
  <2>0. \A q \in Proc \ {p} : ~Critical(q) /\ ~Critical(q)'
    BY <1>2, Alone DEF RemoveBad, Critical
  <2>1. \A q \in Proc : cache[q] = 0 /\ cache'[q] = 0
    BY <1>a, <1>f, <1>2 DEF RemoveBad, QuietAt
  <2>2. \A q \in Proc \ {p} : OwnedAt(q)'
    BY <1>a, <1>g, <1>2, <2>0, <2>1, OthersStay DEF Critical, Publishing, RemoveBad
  <2>3. OwnedAt(p)'
    BY <1>2, <2>1 DEF RemoveBad, Goto, TInv, TypeOK, Publishing
  <2>4. Matched'
    <3>1. ~Resetting
      BY <1>2, <2>0 DEF Critical, RemoveBad
    <3>2. orphaned \/ \A r \in Role : Tokens[r] \in {0, file["id"].key}
      BY <1>a, <3>1
    <3>3. file["id"] = Absent \/ file["id"] = Unread("damaged")
      BY <1>2, <1>f DEF RemoveBad, QuietAt, Sound
    <3>4. file["id"].key = 0 /\ Tokens' = Tokens /\ file'["id"].key = 0
      BY <1>2, <1>c, <3>3 DEF RemoveBad, Unread, Tokens, TInv, TypeOK
    <3> QED BY <1>2, <1>g, <3>2, <3>4 DEF RemoveBad
  <2> QED BY <2>2, <2>3, <2>4
<1>3. CASE Generate(p)
  <2>1. UNCHANGED <<file, cache, sent>> /\ pc'[p] \in {"truncate", "idle"}
        /\ (pc'[p] = "truncate" => kind'[p] = "id") /\ pc[p] # "resettok"
    BY <1>3 DEF Generate, Goto, TInv, TypeOK
  <2> QED BY <1>1, <1>a, <1>g, <2>1 DEF Publishing
<1>4. CASE Truncate(p)
  <2>1. UNCHANGED <<file, cache, sent, kind, data>> /\ pc'[p] = "write" /\ pc[p] = "truncate"
    BY <1>4 DEF Truncate, Goto, TInv, TypeOK
  <2> QED BY <1>1, <1>a, <1>g, <2>1 DEF Publishing
<1>5. CASE Write(p)
  <2>1. UNCHANGED <<file, cache, sent, kind, data>> /\ pc'[p] = "rename" /\ pc[p] = "write"
    BY <1>f, <1>5 DEF Write, Goto, QuietAt, TInv, TypeOK
  <2> QED BY <1>1, <1>a, <1>g, <2>1 DEF Publishing
<1>6. CASE Rename(p)
  <2>0. \A q \in Proc \ {p} : ~Critical(q) /\ ~Critical(q)'
    BY <1>6, Alone DEF Rename, Critical
  <2>1. ~Resetting
    BY <1>6, <2>0 DEF Critical, Rename
  <2>2. /\ data[p].is = "json" /\ data[p] \in Content
        /\ file' = [file EXCEPT ![kind[p]] = data[p]]
    BY <1>f, <1>6 DEF Rename, QuietAt, TInv, TypeOK, Publishing
  <2>3. CASE kind[p] = "id"
    <3>1. file["id"] = Absent /\ data[p] = Identity(data[p].key)
      BY <1>f, <1>6, <2>3 DEF Rename, QuietAt, Publishing
    <3>2. /\ file'["id"] = Identity(data[p].key) /\ file'["tok"] = file["tok"]
          /\ cache'[p] = data[p].key /\ pc'[p] \in {"idle", "challenge", "loadtok"}
      BY <1>6, <2>2, <2>3, <3>1 DEF Rename, Goto, TInv, TypeOK
    <3>3. \A q \in Proc : cache[q] = 0
      BY <1>a, <1>c, <3>1
    <3>4. orphaned' \/ \A r \in Role : Tokens'[r] = 0
      BY <1>6, <1>a, <1>c, <1>g, <2>1, <3>1, <3>2 DEF Tokens, Readable, Rename
    <3>5. \A q \in Proc \ {p} : OwnedAt(q)'
      BY <2>0, <3>3, <1>6, <1>a, <1>g, OthersStay DEF Critical, Publishing, Rename
    <3>6. OwnedAt(p)'
      BY <3>2 DEF Publishing, Identity
    <3> QED BY <3>4, <3>5, <3>6
  <2>4. CASE kind[p] = "tok"
    <3>1. file'["id"] = file["id"] /\ file'["tok"] = data[p] /\ pc'[p] = "idle" /\ UNCHANGED cache
      BY <1>6, <2>2, <2>4 DEF Rename, Goto, TInv, TypeOK
    <3>2. cache[p] # 0 /\ (orphaned' \/ \A r \in Role : data[p].tokens[r] \in {0, cache[p]})
      BY <1>a, <1>g, <1>6, <2>4 DEF Rename, Publishing
    <3>3. file["id"].key = cache[p]
      BY <1>a, <3>2
    <3>4. Tokens' = data[p].tokens
      BY <2>2, <3>1 DEF Tokens, Readable
    <3>5. orphaned' \/ TokensMatch'
      BY <3>1, <3>2, <3>3, <3>4
    <3>6. \A q \in Proc \ {p} : OwnedAt(q)'
      BY <2>0, <3>1, <1>6, <1>a, <1>g, OthersStay DEF Critical, Publishing, Rename
    <3>7. OwnedAt(p)'
      BY <1>a, <1>g, <1>6, <3>1 DEF Publishing, Rename
    <3> QED BY <3>5, <3>6, <3>7
  <2> QED BY <2>3, <2>4 DEF TInv, TypeOK
<1>7. CASE RenameFails(p)
  BY <1>f, <1>7, <1>c DEF RenameFails, QuietAt, TInv, Publishing
<1>8. CASE DropTmp(p)
  <2>1. UNCHANGED <<file, cache, sent>> /\ pc'[p] = "idle" /\ pc[p] = "drop"
    BY <1>8 DEF DropTmp, Goto, TInv, TypeOK
  <2> QED BY <1>1, <1>a, <1>g, <2>1 DEF Publishing
<1>9. CASE Connect(p) \/ Hello(p) \/ HandshakeFails(p) \/ StatusLooks(p)
  <2>1. UNCHANGED <<file, cache>> /\ pc'[p] \in {"idle", "status", "challenge"} /\ pc[p] # "resettok"
    BY <1>9 DEF Connect, Hello, HandshakeFails, StatusLooks, Goto, TInv, TypeOK
  <2> QED BY <1>1, <1>a, <1>g, <2>1 DEF Publishing
<1>10. CASE ResetLooks(p)
  <2>1. /\ UNCHANGED <<file, cache>> /\ pc'[p] \in {"resetid", "resettok"} /\ pc[p] = "idle"
        /\ pc'[p] = "resettok" => file["id"] = Absent
    BY <1>f, <1>10 DEF ResetLooks, Goto, TInv, TypeOK, Exists, Sound, Unread
  <2> QED BY <1>1, <1>a, <1>g, <2>1 DEF Publishing
<1>11. CASE Challenge(p) \/ Pair(p) \/ StatusLoads(p)
  <2>1. PICK next \in {"idle", "challenge", "loadtok"} : LoadIdentity(p, next)
    BY <1>11 DEF Challenge, Pair, StatusLoads
  <2>2. UNCHANGED file /\ pc[p] # "resettok"
    BY <1>11 DEF Challenge, Pair, StatusLoads
  <2>3. pc'[p] \in {"idle", "challenge", "loadtok", "remove", "generate"}
    BY <2>1 DEF LoadIdentity, Goto, TInv, TypeOK
  <2>4. cache'[p] = cache[p] \/ (cache'[p] = file["id"].key /\ Readable("id"))
    BY <2>1 DEF LoadIdentity, TInv, TypeOK
  <2>5. cache'[p] # 0 => OnFile(cache'[p])
    <3>1. CASE cache'[p] = cache[p]
      BY <1>a, <3>1
    <3>2. CASE cache'[p] = file["id"].key /\ Readable("id")
      BY <3>2 DEF OnFile
    <3> QED BY <2>4, <3>1, <3>2
  <2> QED BY <1>1, <2>2, <2>3, <2>5 DEF Publishing
<1>12. CASE LoadToken(p)
  <2>0. \A q \in Proc \ {p} : ~Critical(q) /\ ~Critical(q)'
    BY <1>12, Alone DEF LoadToken, Critical
  <2>1. ~Resetting
    BY <1>12, <2>0 DEF LoadToken, Critical
  <2>2. cache[p] # 0
    BY <1>12 DEF LoadToken, TInv, TypeOK
  <2>3. file["id"].key = cache[p]
    BY <1>a, <2>2
  <2>4. orphaned \/ Tokens[Operator] \in {0, cache[p]}
    BY <1>a, <2>1, <2>3, RoleAssumption
  <2>5. /\ UNCHANGED <<file, cache>> /\ pc'[p] \in {"hello", "idle"} /\ pc[p] # "resettok"
        /\ pc'[p] = "hello" => sent'[p] = Tokens[Operator]
    BY <1>12 DEF LoadToken, Goto, TInv, TypeOK
  <2> QED BY <1>1, <1>a, <1>g, <2>4, <2>5 DEF Publishing
<1>13. ASSUME NEW r \in Role, HelloToken(p, r)
       PROVE  (\A q \in Proc : OwnedAt(q))' /\ Matched'
  <2>0. \A q \in Proc \ {p} : ~Critical(q) /\ ~Critical(q)'
    <3>1. Critical(p)'
      BY <1>13 DEF HelloToken, Critical, Goto, TInv, TypeOK
    <3> QED BY <3>1, Alone
  <2>1. ~Resetting
    BY <1>13, <2>0 DEF HelloToken, Critical
  <2>2. cache[p] # 0
    BY <1>13 DEF HelloToken, TInv, TypeOK
  <2>3. file["id"].key = cache[p]
    BY <1>a, <2>2
  <2>4. orphaned \/ \A s \in Role : Tokens[s] \in {0, cache[p]}
    BY <1>a, <2>1, <2>3
  <2>5. Tokens \in [Role -> Nat]
    BY ContentTypes DEF Tokens, TInv, TypeOK, Content
  <2>6. data'[p].tokens = [Tokens EXCEPT ![r] = cache[p]]
    <3>1. data'[p] = TokenMap([Tokens EXCEPT ![r] = cache[p]])
      BY <1>13 DEF HelloToken, TInv, TypeOK
    <3>2. [Tokens EXCEPT ![r] = cache[p]] \in [Role -> Nat]
      BY <2>5, <1>e
    <3> QED BY <3>1, <3>2, ContentTypes
  <2>7. orphaned \/ \A s \in Role : data'[p].tokens[s] \in {0, cache[p]}
    BY <2>4, <2>5, <2>6
  <2>8. UNCHANGED <<file, cache>> /\ pc'[p] = "truncate" /\ pc[p] # "resettok"
    BY <1>13 DEF HelloToken, Goto, TInv, TypeOK
  <2> QED BY <1>1, <1>a, <1>g, <2>2, <2>7, <2>8 DEF Publishing
<1>14. CASE ResetIdentity(p)
  <2>0. \A q \in Proc \ {p} : ~Critical(q) /\ ~Critical(q)'
    BY <1>14, Alone DEF ResetIdentity, Critical
  <2>1. \A q \in Proc : cache[q] = 0 /\ cache'[q] = 0
    BY <1>14 DEF ResetIdentity, InUse
  <2>2. /\ file'["id"] = Absent /\ file'["tok"] = file["tok"]
        /\ pc'[p] = "resettok" \/ (pc'[p] = "idle" /\ (~Exists("id") \/ ~Exists("tok")))
    BY <1>14 DEF ResetIdentity, Goto, TInv, TypeOK
  <2>3. \A q \in Proc \ {p} : OwnedAt(q)'
    BY <1>14, <1>a, <2>0, <2>1, OthersStay DEF Critical, Publishing, ResetIdentity
  <2>4. OwnedAt(p)'
    BY <2>1, <2>2 DEF Publishing
  <2>5. Matched'
    <3>1. CASE pc'[p] = "resettok"
      BY <3>1
    <3>2. CASE ~Exists("tok")
      <4>1. Tokens' = NoToken
        BY <2>2, <3>2 DEF Tokens, Readable, Exists
      <4> QED BY <4>1 DEF NoToken
    <3>3. CASE ~Exists("id")
      <4>1. file["id"] = Absent /\ ~Resetting
        BY <1>f, <1>14, <2>0, <3>3 DEF Exists, Critical, ResetIdentity, Sound, Unread
      <4> QED BY <1>14, <1>a, <2>2, <4>1 DEF Tokens, ResetIdentity
    <3> QED BY <2>2, <3>1, <3>2, <3>3
  <2> QED BY <2>3, <2>4, <2>5
<1>15. CASE ResetTokens(p)
  <2>1. /\ UNCHANGED cache /\ file'["id"] = file["id"] /\ file'["tok"] = Absent
        /\ pc'[p] = "idle"
    BY <1>15 DEF ResetTokens, Goto, TInv, TypeOK
  <2>2. Tokens' = NoToken
    BY <1>c, <2>1 DEF Tokens, Readable
  <2>3. TokensMatch'
    BY <2>2 DEF NoToken
  <2>4. \A q \in Proc : cache[q] = 0 /\ cache'[q] = 0
    BY <1>15, <1>a, <1>c, <2>1 DEF ResetTokens
  <2>5. \A q \in Proc : OwnedAt(q)'
    <3>1. \A q \in Proc \ {p} : pc'[q] = pc[q] /\ kind'[q] = kind[q]
      BY OthersStay
    <3>2. \A q \in Proc : pc[q] # "hello" /\ ~(Publishing(q) /\ kind[q] = "tok")
      BY <1>a, <2>4 DEF TInv, TypeOK
    <3>3. \A q \in Proc : ~Publishing(q)' \/ q # p
      BY <2>1 DEF Publishing
    <3>4. \A q \in Proc \ {p} : Publishing(q)' <=> Publishing(q)
      BY <3>1 DEF Publishing
    <3> QED BY <1>a, <2>1, <2>4, <3>1, <3>2, <3>3, <3>4
  <2> QED BY <2>3, <2>5
<1>16. CASE Exit(p)
  <2>1. UNCHANGED file /\ pc'[p] = "idle" /\ cache'[p] = 0
        /\ orphaned' = (orphaned \/ pc[p] = "resettok")
    BY <1>16 DEF Exit, Goto, TInv, TypeOK
  <2>2. CASE pc[p] # "resettok"
    BY <1>1, <2>1, <2>2 DEF Publishing
  <2>3. CASE pc[p] = "resettok"
    <3>1. orphaned'
      BY <2>1, <2>3
    <3>2. \A q \in Proc \ {p} : OwnedAt(q)'
      BY <1>a, <2>1, <3>1, OthersStay DEF Publishing
    <3>3. OwnedAt(p)'
      BY <2>1 DEF Publishing
    <3> QED BY <3>1, <3>2, <3>3
  <2> QED BY <2>2, <2>3
<1> QED BY <1>2, <1>3, <1>4, <1>5, <1>6, <1>7, <1>8, <1>9, <1>10, <1>11, <1>12, <1>13, <1>14, <1>15,
           <1>16 DEF Step

LEMMA OwnedOutside ==
  ASSUME TInv, Quiet, Owned, DeleteIdentity \/ DamageIdentity, ~pulled'
  PROVE  Owned'
<1> USE DEF Kind
<1>1. /\ UNCHANGED <<pc, cache, sent, kind, data>>
      /\ file'["tok"] = file["tok"] /\ file'["id"] \in {Absent, Unread("damaged")}
      /\ orphaned' = (orphaned \/ Exists("tok"))
      /\ \A p \in Proc : cache[p] = 0
  BY DEF DeleteIdentity, DamageIdentity, IdentityGoes, InUse, TInv, TypeOK
<1>2. \A p \in Proc : pc[p] # "hello" /\ pc[p] # "resettok" /\ ~(Publishing(p) /\ kind[p] = "tok")
  <2>1. file["id"] # Absent
    BY DEF DeleteIdentity, DamageIdentity, Exists, Readable, Absent, Unread
  <2> QED BY <1>1, <2>1 DEF Owned, TInv, TypeOK
<1>3. orphaned' \/ \A r \in Role : Tokens'[r] = 0
  BY <1>1 DEF Tokens, Exists, Readable, NoToken
<1> QED BY <1>1, <1>2, <1>3 DEF Owned, Publishing

-----------------------------------------------------------------------------
(* The theorems.                                                           *)

LEMMA InvInit == Init => IInv
<1> SUFFICES ASSUME Init PROVE IInv
  OBVIOUS
<1>1. TInv
  BY TypeInit
<1>2. \A p \in Proc : pc[p] = "idle" /\ cache[p] = 0
  BY DEF Init
<1>3. \A k \in Kind : file[k] = Absent
  BY DEF Init, Kind
<1>4. Tokens = NoToken
  BY <1>3 DEF Tokens, Readable, Absent, Unread, Kind
<1>5. Quiet
  BY <1>2, <1>3 DEF Quiet, Sound, Overlap, Critical, Publishing
<1>6. Owned
  BY <1>2, <1>4 DEF Owned, Publishing, NoToken
<1> QED BY <1>1, <1>5, <1>6 DEF IInv

LEMMA InvStep == IInv /\ [Next]_vars => IInv'
<1> SUFFICES ASSUME IInv, [Next]_vars PROVE IInv'
  OBVIOUS
<1>1. CASE UNCHANGED vars
  <2>1. TInv'
    BY <1>1, TypeStutter DEF IInv
  <2>2. (Quiet' <=> Quiet) /\ (Owned' <=> Owned)
    BY <1>1 DEF vars, Quiet, Sound, Owned, Overlap, Critical, Publishing, Tokens, Readable, OnFile
  <2> QED BY <1>1, <2>1, <2>2 DEF IInv, vars
<1>2. CASE Next
  <2>2. TInv'
    BY <1>2, TypeStep DEF IInv
  <2>3. ~contended' => ~contended /\ ~Overlap'
    BY <1>2 DEF Next, IInv, TInv, TypeOK
  <2>4. CASE DeleteIdentity \/ DamageIdentity
    <3>1. ~pulled' => ~pulled
      BY <2>4 DEF DeleteIdentity, DamageIdentity, IdentityGoes
    <3> QED BY <2>2, <2>3, <2>4, <3>1, QuietOutside, OwnedOutside DEF IInv
  <2>5. ASSUME NEW p \in Proc, Step(p) PROVE IInv'
    <3>1. ~pulled' => ~pulled
      BY <2>5 DEF Step, RemoveBad, Generate, Truncate, Write, Rename, RenameFails, DropTmp, Connect,
         Challenge, LoadToken, Hello, HandshakeFails, HelloToken, Pair, StatusLooks, StatusLoads,
         ResetLooks, ResetIdentity, ResetTokens, Exit, IInv, TInv, TypeOK
    <3>2. ~contended' => Quiet'
      BY <2>3, <2>5, QuietStep DEF IInv
    <3>3. ~contended' /\ ~pulled' => Owned'
      BY <2>3, <2>5, <3>1, OwnedStep DEF IInv
    <3> QED BY <2>2, <3>2, <3>3 DEF IInv
  <2> QED BY <1>2, <2>4, <2>5 DEF Next
<1> QED BY <1>1, <1>2

\* Without overlap the program tears neither file, at any point at which a
\* process may have been killed (auth.rs:203-216, ws.rs:1143-1164).
THEOREM FilesNeverTorn == Spec => []FilesWhole
<1>1. IInv => FilesWhole
  <2>1. Absent.is = "missing" /\ Unread("damaged").is = "damaged"
    BY DEF Absent, Unread
  <2> QED BY <2>1 DEF IInv, Quiet, Sound, Readable, FilesWhole, Torn
<1> QED BY <1>1, InvInit, InvStep, PTL DEF Spec

\* Without overlap, every process uses the identity on file, unless that went
\* while it was in use (auth.rs:104-135).
THEOREM StoredIsUsed == Spec => []UsesStored
<1>1. IInv => UsesStored
  BY DEF IInv, Owned, UsesStored
<1> QED BY <1>1, InvInit, InvStep, PTL DEF Spec

\* Under the same conditions a connect request never pairs an identity with the
\* token of another, unless the identity went from under its tokens and no reset
\* has ended since (ws.rs:183-222, main.rs:966-986).
THEOREM TokenMatches == Spec => []TokenIsOwn
<1>1. IInv => TokenIsOwn
  BY DEF IInv, Owned, TokenIsOwn
<1> QED BY <1>1, InvInit, InvStep, PTL DEF Spec

\* Without overlap a token persisted for one role keeps those of the others
\* (ws.rs:1097-1125).
THEOREM OtherRolesKept == Spec => RolesKept
<1> DEFINE Kept == contended' \/ (\E p \in Proc : pc[p] = "resettok") \/ KeepsRoles
<1>1. IInv /\ [Next]_vars => [Kept]_vars
  <2> SUFFICES ASSUME IInv, Next, ~contended', \A p \in Proc : pc[p] # "resettok"
               PROVE  KeepsRoles
    BY DEF vars
  <2>2. TInv /\ Quiet
    BY DEF Next, IInv, TInv, TypeOK
  <2>0. CASE DeleteIdentity \/ DamageIdentity
    <3>1. file'["tok"] = file["tok"]
      BY <2>0, <2>2 DEF DeleteIdentity, DamageIdentity, IdentityGoes, TInv, TypeOK, Kind
    <3> QED BY <3>1 DEF KeepsRoles, Tokens, Readable
  <2> SUFFICES ASSUME NEW p \in Proc, Step(p)
               PROVE  KeepsRoles
    BY <2>0 DEF Next
  <2>3. QuietAt(p)
    BY <2>2, QuietParts
  <2>4. CASE Rename(p) /\ kind[p] = "tok"
    <3>1. file'["tok"] = data[p] /\ data[p].is = "json"
      BY <2>2, <2>3, <2>4 DEF Rename, QuietAt, TInv, TypeOK, Kind, Publishing
    <3>2. Tokens' = data[p].tokens
      BY <3>1 DEF Tokens, Readable
    <3> QED BY <2>3, <2>4, <3>2 DEF Rename, QuietAt, Publishing, KeepsRoles
  <2>5. CASE ~(Rename(p) /\ kind[p] = "tok")
    <3>1. file'["tok"] = file["tok"]
      BY <2>2, <2>3, <2>5 DEF Step, RemoveBad, Generate, Truncate, Write, Rename, RenameFails,
         DropTmp, Connect, Challenge, LoadToken, Hello, HandshakeFails, HelloToken, Pair,
         StatusLooks, StatusLoads, ResetLooks, ResetIdentity, ResetTokens, Exit, store, QuietAt,
         TInv, TypeOK, Kind
    <3> QED BY <3>1 DEF KeepsRoles, Tokens, Readable
  <2> QED BY <2>4, <2>5
<1> QED BY <1>1, InvInit, InvStep, PTL DEF Spec, RolesKept
=============================================================================
