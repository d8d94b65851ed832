--------------------------- MODULE AppConnections ---------------------------
(***************************************************************************)
(* External apps: the row of an app (models/apps.py), the administrator's  *)
(* requests on it (routers/apps.py), and the connections every worker      *)
(* keeps to the app's server (socket/apps.py).  Connecting is an exchange  *)
(* with the server between guarded writes of the row; the workers compare  *)
(* their connections with the row again and again.                         *)
(***************************************************************************)
EXTENDS Naturals, FiniteSets

CONSTANTS Workers, Admins, None,
          Ops,           \* the requests administrators make
          MaxRequests,   \* requests of administrators
          MaxDrops       \* connections that break

VARIABLES row,     \* key: 0 when removed; token: 0 when not enrolled; active; upd
          server,  \* the key the app's server accepts and the tokens it has issued
          req,     \* req[a]: the request of an administrator
          peer,    \* peer[w]: None or [cfg, ready], the connection of a worker's task
          installs,   \* uninstallations
          requests, drops

vars == <<row, server, req, peer, installs, requests, drops>>

NoReq == [op |-> "none", at |-> "idle", row |-> None, w |-> None, saw |-> 0, tok |-> 0]
Cfg(r) == <<r.key, r.token>>
To(a, at, r, t) == [op |-> req[a].op, at |-> at, row |-> r, w |-> req[a].w, saw |-> req[a].saw, tok |-> t]

TypeOK ==
    /\ row.key \in Nat /\ row.token \in Nat /\ row.upd \in Nat /\ row.active \in BOOLEAN
    /\ DOMAIN peer = Workers

Init ==
    /\ row = [key |-> 1, token |-> 0, active |-> FALSE, upd |-> 0]
    /\ server = [key |-> 1, tokens |-> {}]
    /\ req = [a \in Admins |-> NoReq]
    /\ peer = [w \in Workers |-> None]
    /\ installs = 0 /\ requests = 0 /\ drops = 0

-----------------------------------------------------------------------------
(* A request reads the row; what it writes is computed from what it read. *)
Receive(a, op, w) ==
    /\ req[a] = NoReq /\ requests < MaxRequests
    /\ requests' = requests + 1
    /\ req' = [req EXCEPT ![a] = [op |-> op, at |-> "write", row |-> row, w |-> w, saw |-> installs, tok |-> 0]]
    /\ UNCHANGED <<row, server, peer, installs, drops>>

(* update_app_by_id: a name alone leaves the data column as it is; settings,
   scopes or a manifest write it back as it was read; a manifest with another
   public key loses the token, and any manifest disables the app. *)
UpdateApp(a, data, off) ==
    /\ req[a].op = "update" /\ req[a].at = "write"
    /\ data = "key" => off
    /\ row' = [key |-> row.key, active |-> row.active /\ ~off, upd |-> row.upd + 1,
               token |-> CASE data = "none" -> row.token
                           [] data = "read" -> req[a].row.token
                           [] data = "key" -> 0]
    /\ req' = [req EXCEPT ![a] = NoReq]
    /\ UNCHANGED <<server, peer, installs, requests, drops>>

Uninstall(a) ==
    /\ req[a].op = "uninstall" /\ req[a].at = "write"
    /\ row' = [key |-> 0, token |-> 0, active |-> FALSE, upd |-> row.upd + 1]
    /\ installs' = installs + 1
    /\ req' = [req EXCEPT ![a] = NoReq]
    /\ UNCHANGED <<server, peer, requests, drops>>

(* Mutant: a new key is tried while the app stays enabled. *)
ConnectWriteMutant(a, key) ==
    /\ req[a].op = "connect" /\ req[a].at = "write"
    /\ row' = [key |-> key, token |-> IF key = req[a].row.key THEN req[a].row.token ELSE 0,
               active |-> row.active, upd |-> row.upd + 1]
    /\ req' = [req EXCEPT ![a] = To(a, "written", req[a].row, 0)]
    /\ UNCHANGED <<server, peer, installs, requests, drops>>

(* connect_app_by_id: the key of the form, or the one that was read, is written
   with the data that was read; a new key drops the token. *)
ConnectWrite(a, key) ==
    /\ req[a].op = "connect" /\ req[a].at = "write"
    /\ row' = [key |-> key, token |-> IF key = req[a].row.key THEN req[a].row.token ELSE 0,
               active |-> FALSE, upd |-> row.upd + 1]
    /\ req' = [req EXCEPT ![a] = To(a, "written", req[a].row, 0)]
    /\ UNCHANGED <<server, peer, installs, requests, drops>>

(* The connection goes on with the row as it is read after the write. *)
ReadBack(a) ==
    /\ req[a].at \in {"written", "stored"}
    /\ req' = [req EXCEPT ![a] = To(a, IF req[a].at = "written" THEN "dial" ELSE "ready", row, req[a].tok)]
    /\ UNCHANGED <<row, server, peer, installs, requests, drops>>

Fail(a) ==
    /\ req' = [req EXCEPT ![a] = NoReq]

(* A worker that is connecting the app holds its lock. *)
Unlocked(w) == \A a \in Admins : req[a].w = w => req[a].at \notin {"enroll", "stored", "ready", "enabled"}

(* AppConnections.connect and AppConnection.open: the worker's connection goes,
   the server checks the key and the token, and issues one when there is none. *)
Dial(a) ==
    /\ req[a].op = "connect" /\ req[a].at = "dial" /\ Unlocked(req[a].w)
    /\ peer' = [peer EXCEPT ![req[a].w] = None]
    /\ LET r == req[a].row IN
        IF r.key = server.key /\ r.token \in server.tokens \cup {0}
          THEN LET t == IF r.token = 0 THEN Cardinality(server.tokens) + 1 ELSE r.token
               IN  /\ server' = [key |-> server.key, tokens |-> server.tokens \cup {t}]
                   /\ req' = [req EXCEPT ![a] = To(a, "enroll", r, t)]
          ELSE Fail(a) /\ UNCHANGED server
    /\ UNCHANGED <<row, installs, requests, drops>>

(* The token is stored, with the data that was read, if the row is the same. *)
Enroll(a) ==
    /\ req[a].at = "enroll"
    /\ IF row.upd = req[a].row.upd
         THEN /\ row' = [key |-> row.key, token |-> req[a].tok, active |-> FALSE, upd |-> row.upd + 1]
              /\ req' = [req EXCEPT ![a] = To(a, "stored", req[a].row, req[a].tok)]
         ELSE Fail(a) /\ UNCHANGED row
    /\ UNCHANGED <<server, peer, installs, requests, drops>>

(* The app answered the check in both directions: it is enabled, again only if
   the row is the one that was read, *)
Complete(a) ==
    /\ req[a].at = "ready"
    /\ IF row.upd = req[a].row.upd
         THEN /\ row' = [key |-> row.key, token |-> row.token, active |-> TRUE, upd |-> row.upd + 1]
              /\ req' = [req EXCEPT ![a] = To(a, "enabled", req[a].row, req[a].tok)]
         ELSE Fail(a) /\ UNCHANGED row
    /\ UNCHANGED <<server, peer, installs, requests, drops>>

(* and the connection is kept, with the row as it is read once more. *)
Keep(a) ==
    /\ req[a].at = "enabled"
    /\ peer' = [peer EXCEPT ![req[a].w] = [cfg |-> Cfg(row), ready |-> TRUE]]
    /\ Fail(a)
    /\ UNCHANGED <<row, server, installs, requests, drops>>

(* The app does not answer, or the request times out. *)
GiveUp(a) ==
    /\ req[a].at \in {"dial", "enroll", "stored", "ready", "enabled"}
    /\ Fail(a)
    /\ UNCHANGED <<row, server, peer, installs, requests, drops>>

-----------------------------------------------------------------------------
(* Mutant: a connection is kept as long as the app is active. *)
RefreshMutant(w) ==
    /\ Unlocked(w)
    /\ peer' = [peer EXCEPT ![w] =
                  IF ~row.active \/ row.token = 0 THEN None
                  ELSE IF @ = None THEN [cfg |-> Cfg(row), ready |-> FALSE] ELSE @]
    /\ peer' # peer
    /\ UNCHANGED <<row, server, req, installs, requests, drops>>

(* reconcile and refresh: the row decides whether there is a connection, and a
   connection made with another configuration is replaced. *)
Refresh(w) ==
    /\ Unlocked(w)
    /\ peer' = [peer EXCEPT ![w] =
                  IF ~row.active \/ row.token = 0 THEN None
                  ELSE IF (IF @ = None THEN TRUE ELSE @.cfg # Cfg(row))
                    THEN [cfg |-> Cfg(row), ready |-> FALSE] ELSE @]
    /\ peer' # peer
    /\ UNCHANGED <<row, server, req, installs, requests, drops>>

(* maintain: the task tries until the server accepts it. *)
Maintain(w) ==
    /\ peer[w] # None /\ ~peer[w].ready
    /\ peer[w].cfg[1] = server.key /\ peer[w].cfg[2] \in server.tokens
    /\ peer' = [peer EXCEPT ![w].ready = TRUE]
    /\ UNCHANGED <<row, server, req, installs, requests, drops>>

Drop(w) ==
    /\ drops < MaxDrops /\ peer[w] # None /\ peer[w].ready
    /\ drops' = drops + 1
    /\ peer' = [peer EXCEPT ![w].ready = FALSE]
    /\ UNCHANGED <<row, server, req, installs, requests>>

(* send to an app the sender read as r: through the connection made with that
   configuration; another one is replaced first, and not used yet. *)
CanSend(w, r) == IF peer[w] = None THEN FALSE ELSE peer[w].ready /\ peer[w].cfg = Cfg(r)

Admin(a) ==
    \/ \E data \in {"none", "read", "key"}, off \in BOOLEAN : UpdateApp(a, data, off)
    \/ Uninstall(a)
    \/ \E k \in 1..2 : ConnectWrite(a, k)
    \/ ReadBack(a) \/ Dial(a) \/ Enroll(a) \/ Complete(a) \/ Keep(a)

Next ==
    \/ \E a \in Admins, op \in Ops, w \in Workers : Receive(a, op, w)
    \/ \E a \in Admins : Admin(a) \/ GiveUp(a)
    \/ \E w \in Workers : Refresh(w) \/ Maintain(w) \/ Drop(w)

Spec == Init /\ [][Next]_vars

(* Requests end, reconcile runs every five seconds and a task dials on. *)
LiveSpec ==
    /\ Spec
    /\ \A a \in Admins : WF_vars(Admin(a))
    /\ \A w \in Workers : WF_vars(Refresh(w)) /\ WF_vars(Maintain(w))

-----------------------------------------------------------------------------
(* An app that is enabled is one the server accepts with the row's key and
   token: "Connect the app to enable it", whatever keys are tried, changed and
   given up on the way. *)
ActiveIsEnrolled == row.active => row.key = server.key /\ row.token \in server.tokens

Followed ==
    \A w \in Workers : IF row.active /\ row.token # 0 THEN CanSend(w, row) ELSE peer[w] = None

(* Whatever an administrator changes, every worker's connection comes to follow
   the row: a connection with an old configuration does not stay, and an
   enabled app is connected by all workers. *)
PeersFollow == <>[]Followed

(* "App changed while connecting; connect again": an app that was uninstalled
   while a request connected it does not come back. *)
UninstalledStays ==
    [][\A a \in Admins : (row'.active /\ ~row.active /\ req[a].at = "ready" /\ req'[a].at = "enabled")
         => req[a].saw = installs]_vars
=============================================================================
