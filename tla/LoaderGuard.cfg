SPECIFICATION GuardSpec
CONSTANTS
  Entrants = {load, release, unload, setconfig, status}
  Setters = {setconfig}
  Cancellable = {load, unload, setconfig, status}
INVARIANT MutualExclusion
