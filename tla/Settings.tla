------------------------------ MODULE Settings ------------------------------
(***************************************************************************)
(* The settings of the server (lib.rs): PATCH /settings changes them under *)
(* a lock, gives the lock back and only then writes the file, in place;    *)
(* every call of the language model resolves its client from them          *)
(* (SettingsRoutedModel), through a cache of one client keyed by a         *)
(* fingerprint.  Patches and calls run concurrently; the process may die   *)
(* anywhere.                                                               *)
(*                                                                         *)
(* The settings are cut down to the ones that shape a client: the active   *)
(* provider, its key and its model, 0 for a blank one.                     *)
(***************************************************************************)
EXTENDS Integers, FiniteSets

CONSTANTS
    Patches,     \* what a patch may carry: partial records
    Clients,     \* the requests that may be in flight
    MaxPatches,
    None

Defaults == [active |-> "default", key |-> 0, model |-> 1]

VARIABLES
    settings,    \* behind the lock
    onFile,      \* [state, s]: "absent", "torn" or "whole", and what a load of it yields
    patching,    \* a PATCH per client: None or [snap, at]
    crossed,     \* history: two patches were under way at once
    unsaved,     \* history: the last write of the file failed
    clientCache, \* None or [fp, client]
    calling,     \* a model call per client: None or [llm, inForce]
    answeredBy,  \* the last client a call used, with what was in force
    patches

mvars == <<settings, onFile, patching, crossed, unsaved, clientCache, calling, answeredBy, patches>>

(* load_settings: a missing or unreadable file is the defaults.            *)
Torn     == [state |-> "torn", s |-> Defaults]
Whole(s) == [state |-> "whole", s |-> s]
Load(f)  == f.s

(* resolve_provider_creds and client_from_creds: the client for a          *)
(* configuration, the fallback when no provider is active and an error     *)
(* when its key or its model is missing.                                   *)
Fallback == [active |-> "default", key |-> 0, model |-> 0]
Failure  == [active |-> "error", key |-> 0, model |-> 0]

ClientFor(s) ==
    CASE s.active = "default" -> Fallback
      [] s.key = 0 \/ s.model = 0 -> Failure
      [] OTHER -> s

(* Slip: a new key keeps the client.                                       *)
Fingerprint_NoKey(s) == [s EXCEPT !.key = 0]

Fingerprint(s) == s

MInit ==
    /\ settings = Defaults /\ onFile = [state |-> "absent", s |-> Defaults]
    /\ patching = [c \in Clients |-> None] /\ crossed = FALSE /\ unsaved = FALSE
    /\ clientCache = None /\ calling = [c \in Clients |-> None] /\ answeredBy = None /\ patches = 0

Free(c) == patching[c] = None /\ calling[c] = None

(* patch_settings under the lock; the copy it will write is taken there.   *)
Patch(c) ==
    /\ Free(c) /\ patches < MaxPatches /\ patches' = patches + 1
    /\ \E p \in Patches :
          LET new == [f \in DOMAIN settings |-> IF f \in DOMAIN p THEN p[f] ELSE settings[f]] IN
          /\ settings' = new
          /\ patching' = [patching EXCEPT ![c] = [snap |-> new, at |-> "persist"]]
          /\ calling' = [d \in Clients |-> IF calling[d] = None THEN None
                                            ELSE [calling[d] EXCEPT !.inForce = @ \cup {new}]]
    /\ crossed' = (crossed \/ \E d \in Clients : patching[d] # None)
    /\ UNCHANGED <<onFile, unsaved, clientCache, answeredBy>>

(* persist_settings: write_private opens the file, truncating it, and      *)
(* writes it.  Either may fail: that is logged, and the request succeeds.  *)
(* Two writers leave the longer tail.                                      *)
Truncate(c) ==
    /\ patching[c] # None /\ patching[c].at = "persist"
    /\ \/ /\ onFile' = Torn /\ patching' = [patching EXCEPT ![c].at = "write"]
          /\ UNCHANGED unsaved
       \/ /\ unsaved' = TRUE /\ patching' = [patching EXCEPT ![c] = None]
          /\ UNCHANGED onFile
    /\ UNCHANGED <<settings, crossed, clientCache, calling, answeredBy, patches>>

WriteOut(c) ==
    /\ patching[c] # None /\ patching[c].at = "write"
    /\ \/ /\ onFile' \in {Whole(patching[c].snap)} \cup (IF onFile # Torn THEN {Torn} ELSE {})
          /\ unsaved' = FALSE
       \/ /\ onFile' \in {onFile, Torn} /\ unsaved' = TRUE
    /\ patching' = [patching EXCEPT ![c] = None]
    /\ UNCHANGED <<settings, crossed, clientCache, calling, answeredBy, patches>>

(* current(): a copy of the settings, then, under the cache's own lock,    *)
(* the client it knows or a new one.                                       *)
ReadSettings(c) ==
    /\ Free(c)
    /\ calling' = [calling EXCEPT ![c] = [llm |-> settings, inForce |-> {settings}]]
    /\ UNCHANGED <<settings, onFile, patching, crossed, unsaved, clientCache, answeredBy, patches>>

TakeClient(c) ==
    /\ calling[c] # None
    /\ LET llm    == calling[c].llm
           client == ClientFor(llm)
           known  == clientCache # None /\ clientCache.fp = Fingerprint(llm)
           used   == IF client = Fallback THEN client
                     ELSE IF llm.key # 0 /\ known THEN clientCache.client ELSE client IN
       /\ answeredBy' = [client |-> used, inForce |-> calling[c].inForce]
       /\ clientCache' = IF used \in {Fallback, Failure} \/ known THEN clientCache
                         ELSE [fp |-> Fingerprint(llm), client |-> used]
    /\ calling' = [calling EXCEPT ![c] = None]
    /\ UNCHANGED <<settings, onFile, patching, crossed, unsaved, patches>>

(* The process dies and starts again from the file.                        *)
Restart ==
    /\ settings' = Load(onFile) /\ crossed' = FALSE /\ unsaved' = FALSE /\ clientCache' = None /\ answeredBy' = None
    /\ patching' = [c \in Clients |-> None] /\ calling' = [c \in Clients |-> None]
    /\ UNCHANGED <<onFile, patches>>

MNext == Restart \/ \E c \in Clients : Patch(c) \/ Truncate(c) \/ WriteOut(c) \/ ReadSettings(c) \/ TakeClient(c)

MSpec == MInit /\ [][MNext]_mvars

-----------------------------------------------------------------------------
(* A call is answered by the client of a configuration that was in force   *)
(* at some moment of the call, key included; and unless two patches were   *)
(* under way at once or the last write of the file failed, which is only   *)
(* logged, what is on the file once the patches are done is what is        *)
(* served, so that a restart changes nothing, however many writes failed   *)
(* before.                                                                 *)
SettingsServed ==
    /\ answeredBy # None => answeredBy.client \in {ClientFor(s) : s \in answeredBy.inForce}
    /\ (~crossed /\ ~unsaved /\ \A c \in Clients : patching[c] = None) => Load(onFile) = settings
=============================================================================
