---------------------------- MODULE UploadLedger ----------------------------
(***************************************************************************)
(* What the store thread and the uploader promise together, with no SQL,   *)
(* no cursor, no retries, no socket states and no shutdown: a ledger of    *)
(* rows still owed to the receiver.  A row is closed only once it is on    *)
(* its way, or after an outage, or when a limited cache gives up the       *)
(* OLDEST rows it owes; a row goes out again only if something failed; and *)
(* the first copies go out in the order of the rows.  StoreUpload          *)
(* implements it.                                                          *)
(***************************************************************************)
EXTENDS Naturals, Sequences, FiniteSets

CONSTANTS Ids,        \* rows that may be stored
          CacheMax    \* rows the cache is to hold, 0 for no limit

VARIABLES last,       \* the last row stored
          open,       \* the rows still owed
          hand,       \* the row about to be sent, if any
          wire,       \* rows sent and not yet received
          received,   \* how often the receiver got each row
          outages,    \* how often what was on the wire was lost
          excuses     \* crashes and failed statements, each good for one copy

vars == <<last, open, hand, wire, received, outages, excuses>>

Copies(i) == received[i] + Cardinality({k \in 1 .. Len(wire) : wire[k] = i})
Known == {i \in Ids : received[i] > 0} \cup {wire[k] : k \in 1 .. Len(wire)}

Init == /\ last = 0 /\ open = {} /\ hand = {}
        /\ wire = <<>> /\ received = [i \in Ids |-> 0]
        /\ outages = 0 /\ excuses = 0

Store == /\ last + 1 \in Ids
         /\ last' = last + 1
         /\ open' = open \cup {last + 1}
         /\ UNCHANGED <<hand, wire, received, outages, excuses>>

Take == /\ hand = {}
        /\ \E i \in open : hand' = {i}
        /\ UNCHANGED <<last, open, wire, received, outages, excuses>>

Send == /\ \E i \in hand : /\ Copies(i) <= excuses
                           /\ i \notin Known => \A j \in Known : j < i
                           /\ wire' = Append(wire, i)
        /\ hand' = {}
        /\ UNCHANGED <<last, open, received, outages, excuses>>

(* The send fails, or goes to a peer that is gone. *)
Miss == /\ hand # {} /\ outages > 0
        /\ hand' = {}
        /\ UNCHANGED <<last, open, wire, received, outages, excuses>>

Settle == /\ \E i \in open : /\ i \in Known \/ outages > 0
                             /\ open' = open \ {i}
          /\ UNCHANGED <<last, hand, wire, received, outages, excuses>>

Discard == /\ CacheMax > 0
           /\ \E old \in SUBSET open : /\ \A i \in old, j \in open \ old : i < j
                                       /\ open' = open \ old
           /\ UNCHANGED <<last, hand, wire, received, outages, excuses>>

Deliver == /\ wire # <<>>
           /\ received' = [received EXCEPT ![Head(wire)] = @ + 1]
           /\ wire' = Tail(wire)
           /\ UNCHANGED <<last, open, hand, outages, excuses>>

Outage == /\ wire' = <<>> /\ outages' = outages + 1
          /\ UNCHANGED <<last, open, hand, received, excuses>>

(* A crash drops the row in hand; a failed statement has no effect. *)
Fault == /\ excuses' = excuses + 1
         /\ hand' \in {hand, {}}
         /\ UNCHANGED <<last, open, wire, received, outages>>

Next == \/ Store \/ Take \/ Send \/ Miss \/ Settle \/ Discard
        \/ Deliver \/ Outage \/ Fault

Spec == Init /\ [][Next]_vars
=============================================================================
