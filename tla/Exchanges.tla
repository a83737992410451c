------------------------------ MODULE Exchanges ------------------------------
(***************************************************************************)
(* The machines of the daemon that exchange with a hub, with clients and   *)
(* with runners, and are proved about in ExchangeProofs: see Machines.     *)
(***************************************************************************)
EXTENDS Naturals, Sequences

CONSTANTS
  Repositories, Quants, ObjectLists, MaxConcurrent,                 \* HubTransfer
  Calls, CallRefs, RunnerIDs, Modes, BodyOf, Filters, Subscribers,
  MaxRecords, Buffer, MaxMoves, NoBody, Every                       \* Recorder
VARIABLES
  phase, listing, quant, selected, fetch, directory, gone, cancelled, upload, hub,
  named, moves, runners, call, heap, records, answered, pending, sending, sub, excuse,
  panicked

HT == INSTANCE HubTransfer WITH Bundles <- ObjectLists
RC == INSTANCE Recorder WITH IDs <- RunnerIDs, Refs <- CallRefs
=============================================================================
