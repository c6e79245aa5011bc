---------------------------- MODULE ClientUpdate ----------------------------
(***************************************************************************)
(* A client update: ota_core fetches the otaclient of the OTA image before *)
(* the update itself, as a whole squashfs or as a patch of the one kept on *)
(* this slot, and has the main process launch it (ota_core/                *)
(* _client_updater.py, client_package.py).  The client so launched does    *)
(* the update, and leaves its squashfs on the new slot, for a later patch  *)
(* to apply to (_preserve_client_squashfs_at_post_update).                 *)
(***************************************************************************)
EXTENDS Integers

CONSTANTS
    Versions,        \* versions of otaclient
    MaxSessions,     \* client update sessions
    MaxCrashes       \* times ota_core ends in the middle of one

VARIABLES
    version,     \* __version__ of the client installed on the active slot
    app_image,   \* it runs as an APP image
    zstd,        \* zstd is installed
    base,        \* the squashfs in OTACLIENT_INSTALLATION_RELEASE
    dyn,         \* DYNAMIC_CLIENT_SQUASHFS_FILE
    launched,    \* the downloaded client runs
    pc,          \* where the client updater is
    target,      \* the version of the packages in the manifest of the image
    patches,     \* patch_base_version of the patch packages in it
    package,     \* the package chosen: the base version of a patch, Full, or None
    ready,       \* notify_data_ready_event
    sessions, crashes

client_vars == <<version, app_image, zstd, base, dyn, launched, pc, target, patches,
                 package, ready, sessions, crashes>>
slot_vars == <<version, app_image, zstd, base>>
session_vars == <<target, patches>>

\* A squashfs file: the version in it and whether it is whole
Squashfs == [version : Versions, whole : BOOLEAN]
NoFile == [version |-> 0, whole |-> FALSE]
None == -1
Full == 0
Whole(v) == [version |-> v, whole |-> TRUE]

ClientInit ==
    /\ version \in Versions /\ app_image \in BOOLEAN /\ zstd \in BOOLEAN
    /\ base = NoFile /\ dyn = NoFile /\ launched = FALSE
    /\ pc = "idle" /\ target = version /\ patches = {} /\ package = None
    /\ ready = FALSE /\ sessions = MaxSessions /\ crashes = MaxCrashes

Goto(l) == pc' = l
Failed == Goto("failed")

\* client_update is ignored by a client that was itself downloaded
BeginClientUpdate ==
    /\ pc = "idle" /\ ~launched /\ sessions > 0 /\ sessions' = sessions - 1
    /\ target' \in Versions /\ patches' \in SUBSET Versions
    /\ package' = None /\ Goto("metadata")
    /\ UNCHANGED <<slot_vars, dyn, launched, ready, crashes>>

\* _process_metadata, then the manifest is downloaded and parsed
PrepareManifest ==
    /\ pc = "metadata"
    /\ Goto(IF target = version THEN "wait" ELSE "choose") \/ Failed
    /\ UNCHANGED <<slot_vars, dyn, launched, session_vars, package, ready, sessions, crashes>>

\* A patch needs the squashfs it applies to, and zstd
PatchFits == base # NoFile /\ zstd /\ version \in patches

GetAvailablePackageMetadata ==
    /\ pc = "choose"
    /\ \/ PatchFits /\ package' = version /\ Goto("download")
       \/ ~PatchFits /\ package' = Full /\ Goto("download")
       \/ ~PatchFits /\ Failed /\ UNCHANGED package     \* none for this architecture
    /\ UNCHANGED <<slot_vars, dyn, launched, session_vars, ready, sessions, crashes>>

\* The package is verified against its checksum as it is downloaded
PrepareClientPackage ==
    /\ pc = "download" /\ (Goto("wait") \/ Failed)
    /\ UNCHANGED <<slot_vars, dyn, launched, session_vars, package, ready, sessions, crashes>>

\* _wait_sub_ecus, then the version is compared
WaitSubEcus ==
    /\ pc = "wait"
    /\ IF target = version THEN Failed ELSE Goto("target")
    /\ UNCHANGED <<slot_vars, dyn, launched, session_vars, package, ready, sessions, crashes>>

\* The squashfs made of the package is the client of the image: of a patch only
\* on the whole squashfs it was made for.  The base kept on this slot was
\* chosen by being there, and __version__ stands for what is in it.
Sound == package = Full \/ base = Whole(package)

ZstdResultIgnored == TRUE

\* _create_squashfs_from_patch raises when zstd does, which it does on a base
\* the patch was not made for; what it made is not checked otherwise
PatchApplies == Sound

GetTargetSquashfsPath ==
    /\ pc = "target"
    /\ IF PatchApplies THEN Goto("copy") ELSE Failed
    /\ UNCHANGED <<slot_vars, dyn, launched, session_vars, package, ready, sessions, crashes>>

\* shutil.copy opens the file for writing before it copies
CopyClientPackage ==
    /\ \/ pc = "copy" /\ dyn' = [version |-> target, whole |-> FALSE]
          /\ (Goto("copying") \/ Failed)
       \/ pc = "copying" /\ dyn' = [version |-> target, whole |-> Sound] /\ Goto("notify")
    /\ UNCHANGED <<slot_vars, launched, session_vars, package, ready, sessions, crashes>>

\* The standby slot must be unmounted for the new client
NotifyDataReady ==
    /\ pc = "notify"
    /\ \/ ready' = TRUE /\ Goto("launch")
       \/ Failed /\ UNCHANGED ready
    /\ UNCHANGED <<slot_vars, dyn, launched, session_vars, package, sessions, crashes>>

\* execute: the session directory is removed; the failure is reported as SUCCESS
SessionFails ==
    /\ pc = "failed" /\ Goto("idle")
    /\ UNCHANGED <<slot_vars, dyn, launched, session_vars, package, ready, sessions, crashes>>

CoreEnds ==
    /\ pc \notin {"idle", "launch"} /\ crashes > 0 /\ crashes' = crashes - 1
    /\ Goto("idle")
    /\ UNCHANGED <<slot_vars, dyn, launched, session_vars, package, ready, sessions>>

\* The main process: systemd-run with RootImage=DYNAMIC_CLIENT_SQUASHFS_FILE
LaunchDynamicClient ==
    /\ ready /\ ready' = FALSE /\ launched' = TRUE /\ Goto("idle")
    /\ UNCHANGED <<slot_vars, dyn, session_vars, package, sessions, crashes>>

\* The launched client ends without an update: the file stays
DynamicClientEnds ==
    /\ launched /\ launched' = FALSE
    /\ UNCHANGED <<slot_vars, dyn, pc, session_vars, package, ready, sessions, crashes>>

\* An update of the whole ECU, by the launched client or by the installed one:
\* the new slot holds the client of the image, and the squashfs file a
\* dynamic client or APP image finds on the old slot
PreserveClientSquashfs ==
    /\ pc = "idle" /\ ~ready /\ sessions > 0
    /\ base' = IF launched \/ app_image THEN dyn ELSE NoFile
    /\ version' \in (IF launched THEN {target} ELSE Versions)
    /\ dyn' = NoFile /\ launched' = FALSE
    /\ UNCHANGED <<app_image, zstd, pc, session_vars, package, ready, sessions, crashes>>

ClientOver == pc = "idle" /\ ~launched /\ ~ready /\ sessions = 0 /\ UNCHANGED client_vars

Session ==
    \/ PrepareManifest \/ GetAvailablePackageMetadata \/ PrepareClientPackage \/ WaitSubEcus
    \/ GetTargetSquashfsPath \/ CopyClientPackage \/ NotifyDataReady \/ SessionFails

ClientNext ==
    \/ BeginClientUpdate \/ Session \/ CoreEnds \/ LaunchDynamicClient
    \/ DynamicClientEnds \/ PreserveClientSquashfs \/ ClientOver

(***************************************************************************)
(* Properties                                                              *)
(***************************************************************************)
ClientTypeOK ==
    /\ version \in Versions /\ target \in Versions
    /\ base \in Squashfs \cup {NoFile} /\ dyn \in Squashfs \cup {NoFile}

\* What the main process launches is the whole client of the image, although
\* the file is written in place and a patch is applied to whatever squashfs an
\* earlier update carried over: one that a session which died left half
\* written, or one of another version than the client that is installed
LaunchedIsTarget == (ready \/ launched) => dyn = Whole(target)
=============================================================================
