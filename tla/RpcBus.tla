------------------------------- MODULE RpcBus -------------------------------
(***************************************************************************)
(* The RPC bus of nerve-core (rpc.rs): the bearer token file that daemons  *)
(* and `nv rpc rotate-token` share, and the bounded fan-out of envelopes   *)
(* to subscribers.  A token is published by writing <path>.tmp and         *)
(* renaming it, but the name of the staging file is fixed, so two          *)
(* processes may hold the same file open: files are inodes here.           *)
(***************************************************************************)
EXTENDS Naturals, FiniteSets, Functions

CONSTANTS
    BusProcs,    \* processes: nv daemon --rpc, nv rpc rotate-token
    Consumers,   \* subscribers of the running daemon's bus
    Slots,       \* per_consumer_queue, as tokio rounds it up
    MaxFiles,    \* bound: staging files opened
    MaxEmits     \* bound: envelopes emitted

ASSUME BusAssumption ==
    /\ Slots \in Nat \ {0}
    /\ MaxFiles \in Nat /\ MaxEmits \in Nat
    /\ IsFiniteSet(Consumers)

VARIABLES
    path,      \* the inode at token_path (0: none)
    tmp,       \* the inode at its staging path (0: none)
    content,   \* the token in each inode (0: none written yet)
    files,     \* staging files opened so far; the n-th draws token n
    bus,       \* each process: where it is, its file, its token
    undisturbed, \* history: live processes no other one wrote or removed for
    emitted,   \* envelopes sent
    cursor,    \* next envelope each subscriber will read (0: none yet)
    got,       \* history: envelopes each subscriber received
    since,     \* history: the envelope each subscriber started at
    lagged,    \* history: envelopes each subscriber was told it missed
    dropped    \* RpcBus.dropped

tokenVars  == <<path, tmp, content, files, bus, undisturbed>>
fanOutVars == <<emitted, cursor, got, since, lagged, dropped>>
busVars    == <<tokenVars, fanOutVars>>

-----------------------------------------------------------------------------
Closed == [at |-> "closed", fd |-> 0, token |-> 0, drawn |-> 0]

BusInit ==
    /\ path = 0 /\ tmp = 0
    /\ content = [i \in 1 .. MaxFiles |-> 0]
    /\ files = 0
    /\ bus = [p \in BusProcs |-> Closed]
    /\ undisturbed = {}
    /\ emitted = 0
    /\ cursor = [c \in Consumers |-> 0]
    /\ got = [c \in Consumers |-> 0]
    /\ since = [c \in Consumers |-> 0]
    /\ lagged = [c \in Consumers |-> 0]
    /\ dropped = 0

BusAt(p, step) == bus[p].at = step

(* p touches the token file or its staging file. *)
Disturb(p) == undisturbed' = undisturbed \cap {p}

-----------------------------------------------------------------------------
(* Mutation: a token file that exists is trusted even when it is empty. *)
ReadToken_Empty(p) ==
    /\ BusAt(p, "closed")
    /\ IF path # 0
       THEN bus' = [bus EXCEPT ![p] = [Closed EXCEPT !.at = "live",
                                              !.token = content[path]]]
       ELSE bus' = [bus EXCEPT ![p].at = "open"]
    /\ undisturbed' = undisturbed \cup
                        (IF \A q \in BusProcs \ {p} : BusAt(q, "closed")
                         THEN {p} ELSE {})
    /\ UNCHANGED <<path, tmp, content, files, fanOutVars>>

(* RpcBus::new, read_or_create_token: an existing token that is not empty  *)
(* is reused (on Unix it is always trusted); otherwise one is generated.   *)
ReadToken(p) ==
    /\ BusAt(p, "closed")
    /\ IF path # 0 /\ content[path] # 0
       THEN bus' = [bus EXCEPT ![p] = [Closed EXCEPT !.at = "live",
                                              !.token = content[path]]]
       ELSE bus' = [bus EXCEPT ![p].at = "open"]
    /\ undisturbed' = undisturbed \cup
                        (IF \A q \in BusProcs \ {p} : BusAt(q, "closed")
                         THEN {p} ELSE {})
    /\ UNCHANGED <<path, tmp, content, files, fanOutVars>>

(* rotate_token generates a token whatever the file holds. *)
RotateToken(p) ==
    /\ BusAt(p, "live")
    /\ bus' = [bus EXCEPT ![p].at = "open"]
    /\ UNCHANGED <<path, tmp, content, files, undisturbed, fanOutVars>>

(* The staging file is opened with create and truncate. *)
OpenStaging(p) ==
    /\ BusAt(p, "open")
    /\ files < MaxFiles
    /\ files' = files + 1
    /\ tmp' = IF tmp = 0 THEN files + 1 ELSE tmp
    /\ content' = [content EXCEPT ![tmp'] = 0]
    /\ bus' = [bus EXCEPT ![p].at = "write", ![p].fd = tmp',
                          ![p].drawn = files + 1]
    /\ Disturb(p)
    /\ UNCHANGED <<path, fanOutVars>>

WriteStaging(p) ==
    /\ BusAt(p, "write")
    /\ content' = [content EXCEPT ![bus[p].fd] = bus[p].drawn]
    /\ bus' = [bus EXCEPT ![p].at = "rename"]
    /\ Disturb(p)
    /\ UNCHANGED <<path, tmp, files, fanOutVars>>

(* set_permissions and rename fail when the staging file is gone; then     *)
(* new or rotate_token fails, and with it the command.                     *)
RenameStaging(p) ==
    /\ BusAt(p, "rename")
    /\ IF tmp = 0
       THEN /\ bus' = [bus EXCEPT ![p] = Closed]
            /\ UNCHANGED <<path, tmp>>
       ELSE /\ path' = tmp
            /\ tmp' = 0
            /\ bus' = [bus EXCEPT ![p] = [Closed EXCEPT !.at = "live",
                                                 !.token = bus[p].drawn]]
    /\ Disturb(p)
    /\ UNCHANGED <<content, files, fanOutVars>>

(* shutdown removes the token file, whoever wrote it. *)
ShutdownBus(p) ==
    /\ BusAt(p, "live")
    /\ path' = 0
    /\ bus' = [bus EXCEPT ![p] = Closed]
    /\ Disturb(p)
    /\ UNCHANGED <<tmp, content, files, fanOutVars>>

(* A process is killed, or `nv rpc rotate-token` ends: the file stays. *)
LeaveBus(p) ==
    /\ ~BusAt(p, "closed")
    /\ bus' = [bus EXCEPT ![p] = Closed]
    /\ UNCHANGED <<path, tmp, content, files, undisturbed, fanOutVars>>

-----------------------------------------------------------------------------
(* subscribe: the receiver sees what is sent from now on. *)
Subscribe(c) ==
    /\ cursor[c] = 0
    /\ cursor' = [cursor EXCEPT ![c] = emitted + 1]
    /\ since' = [since EXCEPT ![c] = emitted + 1]
    /\ UNCHANGED <<tokenVars, emitted, got, lagged, dropped>>

(* emit: the oldest of Slots envelopes is overwritten; nobody listening is *)
(* not an error.                                                           *)
Emit ==
    /\ emitted < MaxEmits
    /\ emitted' = emitted + 1
    /\ UNCHANGED <<tokenVars, cursor, got, since, lagged, dropped>>

Oldest == IF emitted > Slots THEN emitted - Slots + 1 ELSE 1

Recv(c) ==
    /\ cursor[c] # 0 /\ cursor[c] <= emitted
    /\ cursor[c] >= Oldest
    /\ got' = [got EXCEPT ![c] = @ + 1]
    /\ cursor' = [cursor EXCEPT ![c] = @ + 1]
    /\ UNCHANGED <<tokenVars, emitted, since, lagged, dropped>>

(* RecvError::Lagged(n), which the subscriber passes to note_lag. *)
NoteLag(c) ==
    LET n == Oldest - cursor[c] IN
    /\ cursor[c] # 0
    /\ cursor[c] < Oldest
    /\ cursor' = [cursor EXCEPT ![c] = Oldest]
    /\ lagged' = [lagged EXCEPT ![c] = @ + n]
    /\ dropped' = dropped + n
    /\ UNCHANGED <<tokenVars, emitted, got, since>>

TokenNext ==
    \E p \in BusProcs :
        \/ ReadToken(p) \/ RotateToken(p) \/ OpenStaging(p)
        \/ WriteStaging(p) \/ RenameStaging(p)
        \/ ShutdownBus(p) \/ LeaveBus(p)

FanOutNext == Emit \/ \E c \in Consumers : Subscribe(c) \/ Recv(c) \/ NoteLag(c)

BusNext == TokenNext \/ FanOutNext
BusSpec == BusInit /\ [][BusNext]_busVars
-----------------------------------------------------------------------------
(* Type correctness. *)
BusTypeOK ==
    /\ path \in 0 .. MaxFiles /\ tmp \in 0 .. MaxFiles
    /\ content \in [1 .. MaxFiles -> 0 .. MaxFiles]
    /\ bus \in [BusProcs -> [at : {"closed", "open", "write", "rename", "live"},
                             fd : 0 .. MaxFiles, token : 0 .. MaxFiles,
                             drawn : 0 .. MaxFiles]]
    /\ cursor \in [Consumers -> 0 .. MaxEmits + 1]

(* A daemon never runs with an empty bearer token, although a killed        *)
(* process or another starter may leave an empty file under its name:       *)
(* read_or_create_token replaces one (rpc.rs:204-229).                      *)
BearerNotEmpty == \A p \in BusProcs : BusAt(p, "live") => bus[p].token # 0

(* The file holds the token of a daemon that started alone and that no      *)
(* other process disturbed, whatever killed processes left behind: a        *)
(* client that reads it can authenticate.  (Two daemons in one workspace    *)
(* do disturb each other: the one that exits removes the file of both.)     *)
TokenOnFile ==
    \A p \in undisturbed :
        BusAt(p, "live") => path # 0 /\ content[path] = bus[p].token

(* What a subscriber received, what it was told it missed and what it can  *)
(* still read is all that was emitted since it subscribed.                 *)
Accounted ==
    \A c \in Consumers :
        cursor[c] # 0 => since[c] + got[c] + lagged[c] = cursor[c]

(* No envelope is lost in silence, and the bus's counter is the sum of     *)
(* what was missed.                                                        *)
NoSilentLoss == Accounted /\ dropped = SumFunction(lagged)

(* Daemons that start, rotate, exit and are killed around one fixed        *)
(* staging file never run without a token, the token of one that is alone  *)
(* is on file, and the fan-out accounts for every envelope                 *)
(* (rpc.rs:117-229, 272-304).                                              *)
BusSound ==
    /\ BusTypeOK
    /\ BearerNotEmpty
    /\ TokenOnFile
    /\ NoSilentLoss
=============================================================================
