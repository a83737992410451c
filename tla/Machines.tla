------------------------------- MODULE Machines -------------------------------
(***************************************************************************)
(* The machines of the daemon that are proved about: their constants and   *)
(* variables, and an instance of each.  Services puts them beside the      *)
(* others, MachineProofs proves what each of them keeps.  A variable whose *)
(* name two modules use has another name here.                             *)
(***************************************************************************)
EXTENDS Naturals, Sequences

CONSTANTS
  Requests, APIModels, APITags, ShortNames, NameOf, LatestOf,
  KeptTags, MaxPulls,                                               \* ModelsAPI
  ServerTags, Pushes, MaxInstallKills, MaxFetches,                  \* BackendInstall
  Lines, KeptLines, Runs,                                           \* BackendProcess
  MaxCrashes, MaxGen,                                               \* Daemon
  Users, Kinds, Names, FormatOf, Platform, DeferredOnes, Scripts,
  MaxRetags,                                                        \* Requests
  ServiceTimes, EngineTimes                                         \* LogStream
VARIABLES
  tokens, models, tags, reqs,
  family, updates, newest, desired, server, runnable, libraries, others, record, cut, step, asked,
  image, outcome, kills, fetches,
  run, life, stopping, alive, socket, waiter, written, told, result,
  at, listens, flag, env, failed, signalled, scheduler, steps, gen, old, files,
  exit, crashes,
  tagged, retags, installed, engine, config, request,
  present, size, reading, offset, sawEnd, partial, output

MA == INSTANCE ModelsAPI WITH
  Models <- APIModels, Tags <- APITags, Names <- ShortNames, Kept <- KeptTags, stored <- models
BI == INSTANCE BackendInstall WITH Tags <- ServerTags, MaxKills <- MaxInstallKills
BP == INSTANCE BackendProcess WITH Kept <- KeptLines, phase <- life, cancelled <- stopping
DM == INSTANCE Daemon WITH MaxKills <- MaxCrashes, kills <- crashes
RQ == INSTANCE Requests WITH Clients <- Users
LG == INSTANCE LogStream WITH pending <- partial
=============================================================================
