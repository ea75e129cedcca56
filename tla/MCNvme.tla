------------------------------- MODULE MCNvme -------------------------------
(* The parts of the NVMe bdev module for model checking: a controller, the *)
(* paths and I/Os of a bdev's channel, and the discovery service.  They    *)
(* share no state: what a part sees of another one is in its own module.   *)
EXTENDS MCNvmeCtrlr, NvmeIoPath, NvmeDiscovery

CONSTANTS
    p1, p2,          \* the paths of a multipath bdev
    d1, d2, e1, e2,  \* discovery services and the paths they find
    Parts            \* the parts to check

VARIABLE part

(* The channel: the policies with a path that is lost and an ANA event;    *)
(* retries, aborts and settings; reads that wait for a buffer; I/Os that   *)
(* sump wraps; ANA events; namespaces that come and go.                    *)
PathMix(wrapped, policy, buffers, ios, losses, anas, namespaces, faults, aborts, settings) ==
    [wrapped |-> wrapped, policy |-> policy, buffers |-> buffers, paths |-> <<p1, p2>>, ios |-> ios,
     losses |-> losses, anas |-> anas, namespaces |-> namespaces, faults |-> faults, aborts |-> aborts,
     settings |-> settings]
PathMixSet ==
    {PathMix(FALSE, "passive", FALSE, 2, 1, 1, 0, 1, 0, 0), PathMix(FALSE, "robin", FALSE, 3, 1, 1, 0, 0, 0, 0),
     PathMix(FALSE, "depth", FALSE, 2, 1, 0, 0, 1, 0, 0), PathMix(FALSE, "passive", FALSE, 2, 0, 0, 0, 3, 1, 1),
     PathMix(FALSE, "passive", TRUE, 2, 1, 0, 1, 0, 0, 0), PathMix(TRUE, "passive", FALSE, 3, 1, 0, 0, 1, 0, 0),
     PathMix(FALSE, "passive", FALSE, 1, 0, 2, 0, 1, 0, 0), PathMix(FALSE, "passive", FALSE, 2, 0, 0, 2, 1, 0, 1)}

(* Discovery: one service with failures, a timeout and a loss; two that    *)
(* find the same path, with stops, timeouts and the end of the module.     *)
DiscoveryMix(starts, stops, finis, changes, failures, timeouts, losses, referrals, there) ==
    [starts |-> starts, stops |-> stops, finis |-> finis, changes |-> changes, failures |-> failures,
     timeouts |-> timeouts, losses |-> losses, referrals |-> referrals, there |-> there]
DiscoveryMixSet ==
    {DiscoveryMix(1, 0, 0, 2, 1, 1, 1, 1, {e1}), DiscoveryMix(2, 1, 1, 0, 0, 0, 0, 0, {e1}),
     DiscoveryMix(2, 1, 0, 1, 0, 0, 0, 0, {e1}), DiscoveryMix(1, 0, 0, 2, 0, 1, 1, 0, {e1, e2}),
     DiscoveryMix(2, 1, 0, 0, 0, 1, 0, 0, {e1}), DiscoveryMix(1, 1, 1, 3, 0, 0, 0, 0, {e1})}

nvmeVars == <<part, vars, np, dv>>

(* The initial states of a part, or one of them when another part moves.   *)
NvmeInit ==
    /\ part \in Parts
    /\ Init /\ IoPathInit /\ DiscoveryInit
    /\ part = "ctrlr"     \/ opts = CHOOSE o \in Options : TRUE
    /\ part = "iopath"    \/ np.left = CHOOSE mix \in IoPathMixes : TRUE
    /\ part = "discovery" \/ dv.left = CHOOSE mix \in DiscoveryMixes : TRUE

NvmeNext ==
    \/ part = "ctrlr" /\ Next /\ UNCHANGED <<part, np, dv>>
    \/ part = "iopath" /\ IoPathNext /\ UNCHANGED <<part, vars, dv>>
    \/ part = "discovery" /\ DiscoveryNext /\ UNCHANGED <<part, vars, np>>

NvmeSpec == NvmeInit /\ [][NvmeNext]_nvmeVars

(* The choice of a path, the retries and the caches of a channel, as       *)
(* PathIos of NvmeIoPath, and the types of that part.                      *)
PathsServeIos == part = "iopath" => IoPathTypeOK /\ PathIos

(* What the discovery service keeps, as DiscoveryKeeps of NvmeDiscovery,   *)
(* and the types of that part.                                             *)
DiscoveryFollows == part = "discovery" => DiscoveryTypeOK /\ DiscoveryKeeps
=============================================================================
