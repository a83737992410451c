--------------------------- MODULE BackendInstall ---------------------------
(***************************************************************************)
(* Putting a backend's program on disk: llama.cpp's on-demand download     *)
(* (llamacpp/download.go) and the two Python environments (vllm_metal.go,   *)
(* diffusers.go, which are the same code twice), with the retries of       *)
(* dockerhub/download.go.  The installer runs one installation at a time;  *)
(* the process may be killed between any two steps and come back as        *)
(* another build, with another pinned version.                             *)
(***************************************************************************)
EXTENDS Naturals

CONSTANTS Tags,       \* pinned versions: an immutable tag names one image
          Pushes,     \* the images the tag "latest" names, one after another
          MaxKills, MaxFetches

NoImage == "none"
Images == Tags \cup Pushes
\* A pinned version is no moving tag, and no image is called nothing.
InstallAssumption == {"", "latest"} \cap Tags = {} /\ NoImage \notin Images
NoRecord == [tag |-> "", digest |-> NoImage]

VARIABLES
  family,             \* "llamacpp" or "python"
  updates,            \* ShouldUpdateServer: DISABLE_SERVER_UPDATE is not set
  newest,             \* what "latest" names now
  desired,            \* DesiredServerVersion, or the build's constant
  server, runnable, libraries, others, record, \* the files; others: the rest of the directory
  cut,                \* history: a removal of the directory was cut short, and not taken up since
  step, asked, image, \* the installation under way, for which tag, of which image
  outcome,            \* what it said: Status() and the error it returned
  kills, fetches

biFiles == <<server, runnable, libraries, others, record, cut>>
biVars == <<family, updates, newest, desired, biFiles, step, asked, image, outcome, kills, fetches>>

Digest(tag) == IF tag = "latest" THEN newest ELSE tag
Whole(i) == server = i /\ runnable /\ libraries = i /\ others = i
Done(how) == step' = "idle" /\ outcome' = how

BITypeOK ==
  /\ family \in {"llamacpp", "python"} /\ updates \in BOOLEAN
  /\ newest \in Pushes /\ {desired, asked} \subseteq Tags \cup {"latest"}
  /\ {server, libraries, others, image} \subseteq Images \cup {NoImage}
  /\ runnable \in BOOLEAN /\ runnable => server # NoImage
  /\ cut \in BOOLEAN
  /\ record \in [tag : Tags \cup {"latest", ""}, digest : Images \cup {NoImage}]
  /\ step \in {"idle", "resolve", "download", "clear", "clearLibraries", "server",
               "chmod", "libraries", "record", "verify", "uninstall"}
  /\ outcome \in {"unknown", "installing", "installed", "failed", "swallowed", "notInstalled"}
  \* a version is on record only beside files, or beside what a kill left of them
  /\ step \in {"server", "chmod", "libraries"} => record = NoRecord

BIInit ==
  /\ family \in {"llamacpp", "python"} /\ updates \in BOOLEAN
  /\ newest \in Pushes /\ desired \in Tags
  /\ record \in {NoRecord, [tag |-> "", digest |-> newest]}      \* the legacy format
  /\ server = record.digest /\ libraries = record.digest /\ others = record.digest /\ cut = FALSE
  /\ runnable = (record # NoRecord)
  /\ family = "python" => record = NoRecord /\ updates
  /\ step = "idle" /\ asked = desired /\ image = NoImage /\ outcome = "unknown" /\ kills = 0 /\ fetches = 0

(* The scheduler's SetInstallVersion, outside the installer's lock; and a
   push to the moving tag. *)
SetInstallVersion ==
  /\ family = "llamacpp" /\ \E tag \in Tags \cup {"latest"} : desired' = tag /\ tag # desired
  /\ UNCHANGED <<family, updates, newest, biFiles, step, asked, image, outcome, kills, fetches>>
PushLatest ==
  /\ newest' \in Pushes \ {newest}
  /\ UNCHANGED <<family, updates, desired, biFiles, step, asked, image, outcome, kills, fetches>>

-----------------------------------------------------------------------------
(* What Install decides before it touches anything. *)
Recorded == server # NoImage /\ record.tag = desired
Resolves == ~Recorded \/ desired = "latest"

InstallLlamaCpp ==
  /\ step = "idle" /\ family = "llamacpp" /\ fetches < MaxFetches
  /\ CASE ~updates -> step' = "idle" /\ outcome' = (IF server = NoImage THEN outcome ELSE "installed")
       [] updates /\ ~Resolves -> Done("installed")
       [] OTHER -> step' = "resolve" /\ outcome' = "installing"
  /\ asked' = desired /\ image' = NoImage /\ fetches' = fetches + 1
  /\ UNCHANGED <<family, updates, newest, desired, biFiles, kills>>

InstallPython ==
  /\ step = "idle" /\ family = "python" /\ fetches < MaxFetches
  /\ IF Recorded
     THEN step' = "verify" /\ UNCHANGED outcome
     ELSE step' = "download" /\ outcome' = "installing"
  /\ asked' = desired /\ image' = Digest(desired) /\ fetches' = fetches + 1
  /\ UNCHANGED <<family, updates, newest, desired, biFiles, kills>>

(* ResolveDigest: up to ten tries, none after a terminal error. *)
Resolve ==
  /\ step = "resolve" /\ image' = Digest(asked)
  /\ IF server # NoImage /\ record.digest = image' THEN Done("installed")
     ELSE step' = "download" /\ UNCHANGED outcome
  /\ UNCHANGED <<family, updates, newest, desired, asked, biFiles, kills, fetches>>
Download ==
  /\ step = "download" /\ step' = "clear"
  /\ UNCHANGED <<family, updates, newest, desired, asked, biFiles, image, outcome, kills, fetches>>
(* llamaCpp.Install returns nil for every error but a cancellation: only its
   Status tells.  The Python backends return what went wrong. *)
Fails == IF family = "llamacpp" THEN {"swallowed", "failed"} ELSE {"failed"}
Unreachable ==
  /\ step \in {"resolve", "download"} /\ \E how \in Fails : Done(how)
  /\ UNCHANGED <<family, updates, newest, desired, asked, biFiles, image, kills, fetches>>

(* os.RemoveAll takes the entries of the directory one at a time, in the order
   the directory lists them: the program, its record and the other files the
   image has there, and a Python environment's packages. *)
EntriesButRecord == {"server", "others"} \cup (IF family = "python" THEN {"libraries"} ELSE {})
Entries == {"server", "others", "record"} \cup (IF family = "python" THEN {"libraries"} ELSE {})
Present(e) ==
  CASE e = "server" -> server # NoImage
    [] e = "record" -> record # NoRecord
    [] e = "others" -> others # NoImage
    [] OTHER -> libraries # NoImage
RemoveEntry(e) ==
  /\ Present(e)
  /\ server' = IF e = "server" THEN NoImage ELSE server
  /\ runnable' = (runnable /\ e # "server")
  /\ record' = IF e = "record" THEN NoRecord ELSE record
  /\ libraries' = IF e = "libraries" THEN NoImage ELSE libraries
  /\ others' = IF e = "others" THEN NoImage ELSE others
Clear ==
  /\ step \in {"clear", "uninstall"}
  /\ \E e \in Entries : RemoveEntry(e)
  /\ UNCHANGED <<family, updates, newest, desired, step, asked, image, outcome, cut, kills, fetches>>
ClearEnds ==
  /\ step = "clear" /\ (\A e \in Entries : ~Present(e)) /\ cut' = FALSE
  /\ step' = IF family = "llamacpp" THEN "clearLibraries" ELSE "server"
  /\ UNCHANGED <<family, updates, newest, desired, asked, server, runnable, libraries, others, record,
                 image, outcome, kills, fetches>>
ClearLibraries ==
  /\ step = "clearLibraries" /\ step' = "server" /\ libraries' = NoImage
  /\ UNCHANGED <<family, updates, newest, desired, asked, server, runnable, others, record, cut, image,
                 outcome, kills, fetches>>

(* llama.cpp renames two directories, the program's with all it holds; Python
   copies one tree, bin before lib. *)
MoveServer ==
  /\ step = "server" /\ server' = image /\ runnable' = FALSE
  /\ IF family = "llamacpp" THEN step' = "chmod" /\ others' = image
     ELSE step' = "libraries" /\ UNCHANGED others
  /\ UNCHANGED <<family, updates, newest, desired, asked, libraries, record, cut, image, outcome, kills,
                 fetches>>
Chmod ==
  /\ step = "chmod" /\ runnable' = TRUE
  /\ step' = IF family = "llamacpp" THEN "libraries" ELSE "record"
  /\ UNCHANGED <<family, updates, newest, desired, asked, server, libraries, others, record, cut, image,
                 outcome, kills, fetches>>
MoveLibraries ==
  /\ step = "libraries" /\ libraries' = image
  /\ IF family = "llamacpp" THEN step' = "record" /\ outcome' = "installed" /\ UNCHANGED others
     ELSE step' = "chmod" /\ UNCHANGED outcome /\ others' = image
  /\ UNCHANGED <<family, updates, newest, desired, asked, server, runnable, record, cut, image, kills,
                 fetches>>
(* Only logged when it fails: a copy that is whole but not on record. *)
WriteRecord ==
  /\ step = "record" /\ record' \in {[tag |-> asked, digest |-> image], record}
  /\ IF family = "llamacpp" THEN Done("installed") ELSE step' = "verify" /\ UNCHANGED outcome
  /\ UNCHANGED <<family, updates, newest, desired, asked, server, runnable, libraries, others, cut, image,
                 kills, fetches>>
(* A disk error in any of these steps ends the installation, or the
   uninstallation, where it stands. *)
Removing == step \in {"clear", "uninstall"}
StepFails ==
  /\ step \in {"clear", "clearLibraries", "server", "chmod", "libraries", "uninstall"}
  /\ (\E how \in Fails : Done(how)) /\ cut' = (cut \/ Removing)
  /\ UNCHANGED <<family, updates, newest, desired, asked, server, runnable, libraries, others, record,
                 image, kills, fetches>>

VerifyNothing == TRUE
Verified == runnable /\ libraries = server         \* python3 -c "import ..."
Verify ==
  /\ step = "verify" /\ Done(IF Verified THEN "installed" ELSE "failed")
  /\ UNCHANGED <<family, updates, newest, desired, asked, biFiles, image, kills, fetches>>

(* llama.cpp's Uninstall does nothing. *)
Uninstall ==
  /\ step = "idle" /\ family = "python" /\ fetches < MaxFetches /\ server # NoImage
  /\ step' = "uninstall" /\ fetches' = fetches + 1
  /\ UNCHANGED <<family, updates, newest, desired, asked, biFiles, image, outcome, kills>>
Uninstalled ==
  /\ step = "uninstall" /\ (\A e \in Entries : ~Present(e)) /\ Done("notInstalled") /\ cut' = FALSE
  /\ UNCHANGED <<family, updates, newest, desired, asked, server, runnable, libraries, others, record,
                 image, kills, fetches>>

(* Killed, and started again: perhaps another build, with another version. *)
Kill ==
  /\ kills < MaxKills /\ kills' = kills + 1
  /\ Done("unknown") /\ desired' \in Tags /\ image' = NoImage /\ cut' = (cut \/ Removing)
  /\ UNCHANGED <<family, updates, newest, asked, server, runnable, libraries, others, record, fetches>>

BINext ==
  \/ SetInstallVersion \/ PushLatest \/ InstallLlamaCpp \/ InstallPython
  \/ Resolve \/ Download \/ Unreachable \/ Clear \/ ClearEnds \/ ClearLibraries
  \/ MoveServer \/ Chmod \/ MoveLibraries \/ WriteRecord \/ StepFails \/ Verify
  \/ Uninstall \/ Uninstalled \/ Kill
BISpec == BIInit /\ [][BINext]_biVars

-----------------------------------------------------------------------------
(* When an installation that was allowed to download says "installed", the
   program can run and the libraries beside it are of the same image, whatever
   kills, disk errors, retries, version changes and uninstallations came before
   (download.go writes its record last; the Python backends import what they
   find).  The other files of the directory are the image's too, unless a
   removal was cut short and nothing took it up again: the program and its
   record may then still be there, and nobody looks for more. *)
Works(i) == server = i /\ runnable /\ libraries = i /\ (others = i \/ cut)
InstalledWhole ==
  step = "idle" /\ outcome = "installed" /\ updates => \E i \in Images : Works(i)

(* A pinned version is what its name says: with the tag on record and the
   program there, nothing asks the registry again, so the files had better be
   that image's, not those of the version installed before or after. *)
RecordTellsImage ==
  step = "idle" /\ record.tag \in Tags /\ server # NoImage => server = record.tag
=============================================================================
