--------------------------- MODULE TenantServers ---------------------------
(***************************************************************************)
(* One tenant's upstream servers: the rows of mcp_servers, the requests of *)
(* the tenant API that create, patch and delete them                       *)
(* (src/internal/mcp/tenant_api.go, src/internal/db/tenant_servers.go) and *)
(* the boot of another gateway that re-seals credentials of the old format *)
(* (src/internal/mcp/tenant_reseal.go) while this one still serves.        *)
(*                                                                         *)
(* One action is one statement of the database.  A PATCH reads its row,    *)
(* resolves the target's host and writes the row back: anything may happen *)
(* in between.  Of a URL the origin is kept; of a header map, the origins  *)
(* its credentials were supplied for and the identity of the ciphertext.   *)
(***************************************************************************)
EXTENDS Naturals, FiniteSets

CONSTANTS
    Servers,     \* server UUIDs; newServerUUID never returns one twice
    Names,
    Origins,     \* scheme, host and port of a URL
    Seals,       \* identities of ciphertexts: each sealing draws a new nonce
    Requests,    \* goroutines serving the tenant API
    Keep,        \* a field the PATCH leaves out
    NoServer,    \* no server, no row
    NoSeal,      \* the ciphertext of an empty map, which is {} every time
    NoRequest,   \* nobody holds the advisory lock
    MaxServers   \* maxServers

\* A stored header map: whom its credentials were supplied for.  Only a map with
\* credentials in it is sealed.
Headers == {h \in [for : SUBSET Origins, seal : Seals \cup {NoSeal}, legacy : BOOLEAN] :
                (h.seal = NoSeal <=> h.for = {}) /\ (h.legacy => h.for # {})}

Empty == [for |-> {}, seal |-> NoSeal, legacy |-> FALSE]

Row == [name : Names, origin : Origins, headers : Headers]

ASSUME TenantServersAssumption ==
    /\ IsFiniteSet(Servers)
    /\ Keep \notin Names \cup Origins
    /\ NoServer \notin Row
    /\ NoSeal \notin Seals
    /\ NoRequest \notin Requests
    /\ MaxServers \in Nat \ {0}

VARIABLES
    rows,     \* rows[s]: the row of server s, or NoServer
    issued,   \* the UUIDs handed out so far
    lock,     \* pg_advisory_xact_lock("tenant-servers:" + userID)
    pc,       \* where each request is
    target,   \* the server it patches
    seen,     \* the row it read
    patch,    \* what it was asked to write
    pending   \* the legacy headers the booting gateway has still to re-seal

vars == <<rows, issued, lock, pc, target, seen, patch, pending>>

-----------------------------------------------------------------------------
(* Types and helpers                                                       *)

\* No headers in the body; an empty map; full values only; some masked values.
HeaderKinds == {"keep", "clear", "full", "masked"}

Patch == [name : Names \cup {Keep}, origin : Origins \cup {Keep}, headers : HeaderKinds]

\* What a request that is done was asked to write.
NoPatch == [name |-> Keep, origin |-> Keep, headers |-> "keep"]

Steps == {"done", "lock", "count", "insert", "write"}

At(r, step) == pc[r] = step
Goto(r, step) == pc' = [pc EXCEPT ![r] = step]

Stored == {s \in Servers : rows[s] # NoServer}

Pick(field, old) == IF field = Keep THEN old ELSE field

\* A ciphertext nobody has seen: SealHeaders draws a random nonce.
LiveSeals ==
    {rows[s].headers.seal : s \in Stored}
    \cup {seen[r].headers.seal : r \in {q \in Requests : seen[q] # NoServer}}
    \cup {pending[s].seal : s \in {t \in Servers : pending[t] # NoServer}}

\* Variant: only a missing header map is refused when the origin changes.
AcceptableMasked(p, cur) ==
    /\ p.origin \notin {Keep, cur.origin} => p.headers # "keep"
    /\ p.headers = "masked" => cur.headers.for # {}

\* updateServer refuses headers that would follow the server to a new origin,
\* and mergeHeaders refuses a mask that stands for nothing.
Acceptable(p, cur) ==
    /\ p.origin \notin {Keep, cur.origin} => p.headers \in {"clear", "full"}
    /\ p.headers = "masked" => cur.headers.for # {}

\* The header map a PATCH writes over the row it read; the values it contains
\* in full are for the origin it asks for.  Whatever was merged is sealed anew.
NewHeaders(p, cur, seal) ==
    LET origin == Pick(p.origin, cur.origin) IN
    CASE p.headers = "keep"   -> cur.headers
      [] p.headers = "clear"  -> Empty
      [] p.headers = "full"   -> [for |-> {origin}, seal |-> seal, legacy |-> FALSE]
      [] p.headers = "masked" -> [for |-> cur.headers.for \cup {origin},
                                  seal |-> seal, legacy |-> FALSE]

Patched(p, cur, seal) ==
    [name |-> Pick(p.name, cur.name), origin |-> Pick(p.origin, cur.origin),
     headers |-> NewHeaders(p, cur, seal)]

NameTaken(name, except) == \E s \in Stored \ except : rows[s].name = name

Return(r) ==
    /\ Goto(r, "done")
    /\ target' = [target EXCEPT ![r] = NoServer]
    /\ seen' = [seen EXCEPT ![r] = NoServer]
    /\ patch' = [patch EXCEPT ![r] = NoPatch]

\* The transaction of r ends and with it its advisory lock.
EndTransaction(r) ==
    /\ lock' = IF lock = r THEN NoRequest ELSE lock
    /\ Return(r)

-----------------------------------------------------------------------------
(* Initial states: a tenant with or without a server of the old format.    *)

OldRow(name, origin, seal) ==
    [name |-> name, origin |-> origin,
     headers |-> [for |-> {origin}, seal |-> seal, legacy |-> TRUE]]

Init ==
    /\ \E first \in SUBSET Servers :
        /\ Cardinality(first) <= 1
        /\ issued = first
        /\ \E name \in Names, origin \in Origins, seal \in Seals :
            rows = [s \in Servers |->
                        IF s \in first THEN OldRow(name, origin, seal) ELSE NoServer]
    /\ lock = NoRequest
    /\ pc = [r \in Requests |-> "done"]
    /\ target = [r \in Requests |-> NoServer]
    /\ seen = [r \in Requests |-> NoServer]
    /\ patch = [r \in Requests |-> NoPatch]
    /\ pending = [s \in Servers |-> NoServer]

-----------------------------------------------------------------------------
(* POST: createServer and the transaction of CreateTenantServer            *)

\* A new server has a name, a URL, and no masked values.
Create(r) ==
    /\ At(r, "done")
    /\ \E name \in Names, origin \in Origins, headers \in {"clear", "full"} :
        patch' = [patch EXCEPT ![r] =
            [name |-> name, origin |-> origin, headers |-> headers]]
    /\ Goto(r, "lock")
    /\ UNCHANGED <<rows, issued, lock, target, seen, pending>>

\* Variant: the count is not protected by the lock.
LockUnheld(r) ==
    /\ At(r, "lock")
    /\ Goto(r, "count")
    /\ UNCHANGED <<rows, issued, lock, target, seen, patch, pending>>

Lock(r) ==
    /\ At(r, "lock")
    /\ lock = NoRequest
    /\ lock' = r
    /\ Goto(r, "count")
    /\ UNCHANGED <<rows, issued, target, seen, patch, pending>>

Count(r) ==
    /\ At(r, "count")
    /\ Cardinality(Stored) < MaxServers
    /\ Goto(r, "insert")
    /\ UNCHANGED <<rows, issued, lock, target, seen, patch, pending>>

\* The insert with its mapping, visible to others with the commit.
Insert(r) ==
    /\ At(r, "insert")
    /\ ~NameTaken(patch[r].name, {})
    /\ \E s \in Servers \ issued, seal \in Seals \ LiveSeals :
        /\ rows' = [rows EXCEPT ![s] =
                [name |-> patch[r].name, origin |-> patch[r].origin,
                 headers |-> IF patch[r].headers = "clear" THEN Empty
                             ELSE [for |-> {patch[r].origin}, seal |-> seal, legacy |-> FALSE]]]
        /\ issued' = issued \cup {s}
    /\ EndTransaction(r)
    /\ UNCHANGED pending

\* Too many servers, a taken name, or an error of the database at any point.
Rollback(r) ==
    /\ pc[r] \in {"lock", "count", "insert"}
    /\ EndTransaction(r)
    /\ UNCHANGED <<rows, issued, pending>>

-----------------------------------------------------------------------------
(* PATCH: updateServer and UpdateTenantServer                              *)

\* findServer reads the row; the body is checked against it.
Read(r) ==
    /\ At(r, "done")
    /\ \E s \in Stored, p \in Patch :
        /\ Acceptable(p, rows[s])
        /\ target' = [target EXCEPT ![r] = s]
        /\ seen' = [seen EXCEPT ![r] = rows[s]]
        /\ patch' = [patch EXCEPT ![r] = p]
    /\ Goto(r, "write")
    /\ UNCHANGED <<rows, issued, lock, pending>>

\* What r writes goes into the row, whatever the row now is.
Overwrite(r, seal) ==
    rows' = [rows EXCEPT ![target[r]] = Patched(patch[r], seen[r], seal)]

\* Variant: the update does not compare the headers.
WriteBlindly(r) ==
    /\ At(r, "write")
    /\ rows[target[r]] # NoServer
    /\ ~NameTaken(Pick(patch[r].name, seen[r].name), {target[r]})
    /\ \E seal \in Seals \ LiveSeals : Overwrite(r, seal)
    /\ Return(r)
    /\ UNCHANGED <<issued, lock, pending>>

\* The row is written back whole, while it still holds the headers that were
\* read: headers IS NOT DISTINCT FROM expectedHeaders.
Write(r) ==
    /\ At(r, "write")
    /\ rows[target[r]] # NoServer
    /\ rows[target[r]].headers = seen[r].headers
    /\ ~NameTaken(Pick(patch[r].name, seen[r].name), {target[r]})
    /\ \E seal \in Seals \ LiveSeals : Overwrite(r, seal)
    /\ Return(r)
    /\ UNCHANGED <<issued, lock, pending>>

\* A conflict, a taken name, a deleted row, a blocked address, or an error.
Refuse(r) ==
    /\ At(r, "write")
    /\ Return(r)
    /\ UNCHANGED <<rows, issued, lock, pending>>

-----------------------------------------------------------------------------
(* DELETE: what findServer read does not matter to DeleteTenantServer      *)

Delete(s) ==
    /\ s \in Stored
    /\ rows' = [rows EXCEPT ![s] = NoServer]
    /\ UNCHANGED <<issued, lock, pc, target, seen, patch, pending>>

-----------------------------------------------------------------------------
(* The boot of another gateway: ResealLegacyTenantHeaders                  *)

\* ListLegacyTenantHeaders reads the rows of the old format.
ListLegacy ==
    /\ \A s \in Servers : pending[s] = NoServer
    /\ \E s \in Stored : rows[s].headers.legacy
    /\ pending' = [s \in Servers |->
            IF s \in Stored /\ rows[s].headers.legacy THEN rows[s].headers ELSE NoServer]
    /\ UNCHANGED <<rows, issued, lock, pc, target, seen, patch>>

\* SetTenantHeaders: the same credentials in the new format, compare-and-set.
Reseal(s) ==
    /\ pending[s] # NoServer
    /\ rows[s] # NoServer
    /\ rows[s].headers = pending[s]
    /\ \E seal \in Seals \ LiveSeals :
        rows' = [rows EXCEPT ![s].headers =
                    [for |-> pending[s].for, seal |-> seal, legacy |-> FALSE]]
    /\ pending' = [pending EXCEPT ![s] = NoServer]
    /\ UNCHANGED <<issued, lock, pc, target, seen, patch>>

\* A conflict, a missing row, a wrong key or an error stops the boot.
StopBoot ==
    /\ \E s \in Servers : pending[s] # NoServer
    /\ pending' = [s \in Servers |-> NoServer]
    /\ UNCHANGED <<rows, issued, lock, pc, target, seen, patch>>

-----------------------------------------------------------------------------

Next ==
    \/ \E r \in Requests :
        \/ Create(r) \/ Lock(r) \/ Count(r) \/ Insert(r) \/ Rollback(r)
        \/ Read(r) \/ Write(r) \/ Refuse(r)
    \/ \E s \in Servers : Delete(s) \/ Reseal(s)
    \/ ListLegacy
    \/ StopBoot

Spec == Init /\ [][Next]_vars

-----------------------------------------------------------------------------
(* Properties                                                              *)

TypeOK ==
    /\ rows \in [Servers -> Row \cup {NoServer}]
    /\ issued \in SUBSET Servers
    /\ lock \in Requests \cup {NoRequest}
    /\ pc \in [Requests -> Steps]
    /\ target \in [Requests -> Servers \cup {NoServer}]
    /\ seen \in [Requests -> Row \cup {NoServer}]
    /\ patch \in [Requests -> Patch]
    /\ pending \in [Servers -> Headers \cup {NoServer}]

\* A stored credential belongs to the origin it was supplied for, whatever
\* patches, deletes and re-seals overlap (tenant_api.go:466-473).
CredentialsStay == \A s \in Stored : rows[s].headers.for \subseteq {rows[s].origin}

\* Concurrent creates cannot exceed maxServers (tenant_servers.go:100-103).
ServerLimit == Cardinality(Stored) <= MaxServers

\* Someone writes s: the row is there before and after the step.
Written(s) == rows[s] # NoServer /\ rows'[s] # NoServer /\ rows'[s] # rows[s]

\* The request whose write this step is, if it is one.
Writes(r, s) == At(r, "write") /\ pc'[r] = "done" /\ target[r] = s /\ Written(s)

\* Who writes credentials writes those it was given or those it found: a write
\* that leaves the headers alone never brings back an earlier credential, and a
\* re-seal never replaces a newer one (tenant_servers.go:151-154, 234-238).
HeadersKept ==
    \A s \in Servers : Written(s) =>
        \/ rows'[s].headers = rows[s].headers
        \/ rows[s].headers.legacy /\ rows'[s].headers.for = rows[s].headers.for
        \/ \E r \in Requests : Writes(r, s) /\ patch[r].headers # "keep"
HeadersNotReverted == [][HeadersKept]_vars

=============================================================================
