------------------------- MODULE OperatorSentinel -------------------------
(* The operator sentinel's shared state file (pipeline/operator_sentinel.py, *)
(* realtime_watch.py, realtime_ws.py), for one watched cluster.              *)
(* Three passes update the file under _state_lock: the scheduler's transfer  *)
(* scan, the 20 s watcher and the websocket flush.  The scan reads its       *)
(* cursor and spends minutes on the network before it takes the lock.  Two   *)
(* more rewrite the whole file without the lock: assess_second_leg, and      *)
(* register called for another cluster.                                      *)
(* Which kinds the balances, prices, approvals and deposits fire beside the  *)
(* transfers is an input, and with it the levels that arm them (the bleed    *)
(* step, the buyer's rhythm, the rally's high): only the phase they lead to  *)
(* reaches another pass.  Transfers into and out of the cluster are numbered *)
(* in the order of their block times, and a cursor is the number of one.     *)
EXTENDS Naturals, Sequences, FiniteSets, FiniteSetsExt

CONSTANTS Rewriters,              \* the passes that save without the lock
          ScanMaxDays,            \* _FLOW_SCAN_MAX_DAYS
          CapDays,                \* the logs' path never looks further back
          MaxTransfers, LastDay   \* bounds of the instance

ASSUME SentinelAssumption ==
    ScanMaxDays \in Nat /\ CapDays \in Nat /\ MaxTransfers \in Nat /\ LastDay \in Nat

VARIABLES moves,     \* the cluster's transfers on chain, oldest first
          today,
          target,    \* the cluster's record in operator_sentinels.json
          window,    \* what a running transfer scan holds in memory
          held,      \* the file image each unlocked rewriter holds
          accounted  \* history: transfers of the windows the scans committed,
                     \* with those they gave up

sentinelVars == <<moves, today, target, window, held, accounted>>

Phases == {"deposit", "sell", "arm", "buy", "stall", "other"}
None   == "none"
Unset  == MaxTransfers + 1       \* no cursor yet
Never  == LastDay + 1            \* no scan stamp

Move   == [side: {"sell", "buy"}, day: 0..LastDay]
Target == [cursor: 0..Unset, scanned: 0..Never, phase: Phases \cup {None}]
Registered == [cursor |-> Unset, scanned |-> Never, phase |-> None]
NoWindow == [at |-> "rest", latest |-> Unset, seen |-> {}, missed |-> {}]

SentinelTypeOK ==
    /\ moves \in Seq(Move) /\ Len(moves) <= MaxTransfers
    /\ today \in 0..LastDay
    /\ target \in Target
    /\ window.at \in {"rest", "answered", "failed"}
    /\ window.latest \in 0..Unset
    /\ window.seen \subseteq 1..Len(moves) /\ window.missed \subseteq 1..Len(moves)
    /\ \A w \in Rewriters : held[w] = <<>> \/ held[w][1] \in Target
    /\ accounted \subseteq 1..Len(moves)

SentinelInit ==
    /\ moves = <<>> /\ today = 0
    /\ target = Registered /\ window = NoWindow
    /\ held = [w \in Rewriters |-> <<>>]
    /\ accounted = {}

-----------------------------------------------------------------------------
(* _flow_cursor: a cursor whose last scan is too old, or was never stamped,  *)
(* is not used.                                                              *)
FlowCursor(t) ==
    IF t.cursor = Unset \/ t.scanned = Never \/ today - t.scanned > ScanMaxDays
    THEN Unset ELSE t.cursor

(* The cluster trades; a day passes.                                         *)
Trade ==
    /\ Len(moves) < MaxTransfers
    /\ \E side \in {"sell", "buy"} : moves' = Append(moves, [side |-> side, day |-> today])
    /\ UNCHANGED <<today, target, window, held, accounted>>

DayPasses ==
    /\ today < LastDay /\ today' = today + 1
    /\ UNCHANGED <<moves, target, window, held, accounted>>

-----------------------------------------------------------------------------
(* cluster_net_flow of the transfers after a cursor.                         *)
Newer(since) == {i \in DOMAIN moves : since = Unset \/ i > since}
Sold(seen)   == {i \in seen : moves[i].side = "sell"}
Bought(seen) == {i \in seen : moves[i].side = "buy"}
TooOld       == {i \in DOMAIN moves : today - moves[i].day > CapDays}

Brings(since, head, seen, latest) ==
    window' = [at |-> "answered", latest |-> latest, seen |-> seen,
               missed |-> {i \in Newer(since) : i <= head} \ seen]

(* Moralis, or Solana's signatures: wallet by wallet, strictly after the     *)
(* cursor.  A page that fails, or holds too much, or was read just before a  *)
(* transfer came, leaves that transfer out without a sign of it.             *)
PagesFrom(since) ==
    \E seen \in SUBSET Newer(since) :
        Brings(since, Len(moves), seen, IF seen = {} THEN since ELSE Max(seen))

(* eth_getLogs from at least 50 blocks back, whatever the cursor says, and   *)
(* from before the cursor unless the cap forbids it: transfers that an       *)
(* earlier scan saw come again.  The last buy or the last sale is left out   *)
(* of the new cursor when the time of its block could not be read.  Without  *)
(* a cursor the window is a fixed one.  The node may be behind the chain; the *)
(* block time it measures, from which the first block is computed, is taken  *)
(* as right.                                                                 *)
LogsFrom(since) ==
    \E from \in 1 .. Len(moves) + 1, head \in 0 .. Len(moves) :
        LET seen == {i \in from .. head : i \notin TooOld} IN
        /\ since # Unset => from <= since + 1
        /\ \E timed \in SUBSET {Sold(seen), Bought(seen)} :
              Brings(since, head, seen, IF UNION timed = {} THEN since ELSE Max(UNION timed))

(* check_run, first part, without the lock: the cursor is read from the file *)
(* and the network asked; or nothing answers.                                *)
Scan ==
    /\ window.at = "rest"
    /\ \/ PagesFrom(FlowCursor(target))
       \/ LogsFrom(FlowCursor(target))
       \/ window' = [NoWindow EXCEPT !.at = "failed"]
    /\ UNCHANGED <<moves, today, target, held, accounted>>

(* The phase of an alert: the first of these its kinds belong to.            *)
PhaseOf(kinds) ==
    CASE "deposit" \in kinds -> "deposit"
      [] kinds \cap {"sold", "rug"} # {} -> "sell"
      [] "armed" \in kinds -> "arm"
      [] kinds \cap {"bought", "ignition"} # {} -> "buy"
      [] "stalled" \in kinds -> "stall"
      [] OTHER -> "other"

(* The scan's part of _check_one, on the record read again under the lock:   *)
(* move the cursor, stamp the scan, and judge the window only when the       *)
(* record already had a usable cursor.                                       *)
Answers(p) == p = "scan" /\ window.at = "answered"
\* Mutant of LatestSeen: the cursor moves to the end of the chain.
HeadOfChain == Len(moves)
LatestSeen  == IF window.latest # Unset THEN window.latest ELSE FlowCursor(target)
Advanced(p) ==
    IF Answers(p) THEN [target EXCEPT !.cursor = LatestSeen, !.scanned = today] ELSE target
Rebuilds(p) == Answers(p) /\ FlowCursor(target) = Unset
Window(p)   == IF Answers(p) /\ ~Rebuilds(p) THEN window.seen ELSE {}

(* What a window fires: its net direction, when the balance was read and the *)
(* net is large enough.                                                      *)
FlowKinds(seen) ==
    LET sold == Cardinality(Sold(seen)) bought == Cardinality(Bought(seen)) IN
    IF sold > bought THEN {{}, {"sold"}}
    ELSE IF bought > sold THEN {{}, {"bought"}}
    ELSE {{}}

(* What else a pass may fire, of which one kind is enough to set the phase.  *)
OtherKinds(p) ==
    {{}, {"rug"}, {"ignition"}, {"stalled"}, {"bleed"}}
    \cup (IF p = "scan" THEN {{"deposit"}, {"armed"}} ELSE {})

(* An alert is kept only when it changes the phase.                          *)
Fires(kinds) == kinds # {} /\ PhaseOf(kinds) # target.phase

(* check_run, second part: everything from _state_lock to _save.  A watcher  *)
(* brings only prices, so that its first part leaves nothing to remember.    *)
Commit(p) ==
    /\ p = "scan" => window.at # "rest"
    /\ \E net \in FlowKinds(Window(p)), other \in OtherKinds(p) :
          target' = [Advanced(p) EXCEPT
                       !.phase = IF Fires(net \cup other) THEN PhaseOf(net \cup other) ELSE @]
    /\ accounted' = IF Answers(p) THEN accounted \cup window.seen \cup window.missed
                                  ELSE accounted
    /\ window' = IF p = "scan" THEN NoWindow ELSE window
    /\ UNCHANGED <<moves, today, held>>

(* The scheduler dies while its scan is on the network.                      *)
PassDies ==
    /\ window.at # "rest" /\ window' = NoWindow
    /\ UNCHANGED <<moves, today, target, held, accounted>>

(* realtime_ws._flush: the websocket's own net flow, deduplicated by the     *)
(* phase the passes share.                                                   *)
Flush ==
    /\ \E kinds \in {{"sold"}, {"bought"}} :
        /\ Fires(kinds)
        /\ target' = [target EXCEPT !.phase = PhaseOf(kinds)]
    /\ UNCHANGED <<moves, today, window, held, accounted>>

(* assess_second_leg, and register for another cluster: load the file, work  *)
(* on the network, save the whole file.                                      *)
HoldFile(w) ==
    /\ held[w] = <<>>
    /\ held' = [held EXCEPT ![w] = <<target>>]
    /\ UNCHANGED <<moves, today, target, window, accounted>>

SaveHeld(w) ==
    /\ held[w] # <<>>
    /\ target' = held[w][1]
    /\ held' = [held EXCEPT ![w] = <<>>]
    /\ UNCHANGED <<moves, today, window, accounted>>

SentinelNext ==
    \/ Trade \/ DayPasses \/ Scan \/ PassDies \/ Flush
    \/ Commit("scan") \/ Commit("watch")
    \/ \E w \in Rewriters : HoldFile(w) \/ SaveHeld(w)

SentinelSpec == SentinelInit /\ [][SentinelNext]_sentinelVars

-----------------------------------------------------------------------------
(* The cursor never moves past a transfer that no scan has dealt with: each  *)
(* one up to it was in the window of a scan that reached the lock, or was    *)
(* one that scan could not have (left out of its pages, beyond the cap, or   *)
(* before the window of a scan without a cursor).  It holds although the     *)
(* scan works for minutes on a cursor it read without the lock, while the    *)
(* cluster trades on, an unlocked save takes the cursor back or forth, and a *)
(* pass dies with its window; a transfer may well be judged twice.           *)
NothingSlipsPast == target.cursor # Unset => 1 .. target.cursor \subseteq accounted
=============================================================================
