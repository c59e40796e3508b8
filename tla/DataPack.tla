------------------------------- MODULE DataPack -------------------------------
(***************************************************************************)
(* The device and data capabilities (files, downloads, gallery, media,     *)
(* microphone, camera, storage) and their bridges.  Same conventions as    *)
(* Communication: one call of the bridge is ...Effect, a rollback ...Undo. *)
(***************************************************************************)
EXTENDS BridgeContract

CONSTANTS
    Paths,      \* paths of files
    Contents    \* contents of files

\* No content, no status and no data of a result is None.
DownloadStatus == {"downloading", "paused", "cancelled"}
ASSUME DataAssumption ==
    /\ None \notin Contents \cup DownloadStatus
    /\ None \notin [path : Paths, to : Paths \cup Contents \cup {None}, pre_state : Contents \cup {None}]
    /\ None \notin [id : Commands, pre_state : DownloadStatus \cup {None}]
    /\ None \notin [id : Commands]

-----------------------------------------------------------------------------
\* Files: a function of the paths to the contents.  rename and move are the
\* same operation under two names.
InitialFiles == [p \in Paths |-> None]
FilesCalls ==
    ({"create", "write"} \X (Paths \X Contents)) \cup ({"rename", "move"} \X (Paths \X Paths))
        \cup ({"delete"} \X (Paths \X {None}))
Exists(fs, p) == fs[p] # None
FilesRefuses(fs, a, x) ==
    CASE a = "create" -> Exists(fs, x[1])
      [] a \in {"rename", "move"} -> ~Exists(fs, x[1]) \/ Exists(fs, x[2])
      [] OTHER -> ~Exists(fs, x[1])

Moved(fs, from, to) == [fs EXCEPT ![to] = fs[from], ![from] = None]
FilesEffect(fs, a, x) ==
    IF a \in {"rename", "move"} THEN Moved(fs, x[1], x[2]) ELSE [fs EXCEPT ![x[1]] = x[2]]

FilesData(fs, a, x) == [path |-> x[1], to |-> x[2], pre_state |-> fs[x[1]]]

\* The rollback of create is files.delete and that of rename pops the
\* destination: both raise when the file is no longer there.
FilesUndoRaises(fs, a, data) ==
    /\ data # None
    /\ \/ a = "create" /\ ~Exists(fs, data.path)
       \/ a \in {"rename", "move"} /\ ~Exists(fs, data.to)

\* Whatever is at the path by now is overwritten.
FilesUndo(fs, a, data) ==
    CASE data = None -> fs
      [] data # None /\ a = "create" -> [fs EXCEPT ![data.path] = None]
      [] data # None /\ a \in {"rename", "move"} -> Moved(fs, data.to, data.path)
      [] data # None /\ a \in {"write", "delete"} -> [fs EXCEPT ![data.path] = data.pre_state]

-----------------------------------------------------------------------------
\* Downloads: ids to statuses.  pause and resume accept any existing download,
\* whatever its status.
InitialDownloads == [d \in Commands |-> None]
DownloadsCalls(c) ==
    {<<"start", c>>} \cup ({"pause", "resume", "cancel", "delete"} \X Commands)
DownloadsRefuses(s, a, d) == a # "start" /\ s[d] = None

DownloadsEffect(s, a, d) ==
    [s EXCEPT ![d] = CASE a \in {"start", "resume"} -> "downloading"
                       [] a = "pause"  -> "paused"
                       [] a = "cancel" -> "cancelled"
                       [] a = "delete" -> None]

DownloadsReversible(a) == a \in {"pause", "resume"}
DownloadsData(s, a, d) == [id |-> d, pre_state |-> s[d]]
DownloadsUndo(s, a, data) ==
    IF /\ DownloadsReversible(a) /\ data # None
       /\ s[data.id] # None
    THEN [s EXCEPT ![data.id] = data.pre_state] ELSE s

-----------------------------------------------------------------------------
\* Gallery: the set of assets.
InitialGallery == {}
GalleryCalls(c) == {<<"add", c>>} \cup ({"delete"} \X Commands)
GalleryRefuses(s, a, i) == a = "delete" /\ i \notin s
GalleryEffect(s, a, i) == IF a = "add" THEN s \cup {i} ELSE s \ {i}
GalleryData(s, a, i) == [id |-> i]
GalleryUndo(s, a, data) ==
    CASE data = None -> s
      [] data # None /\ a = "add"    -> s \ {data.id}
      [] data # None /\ a = "delete" -> s \cup {data.id}

-----------------------------------------------------------------------------
\* Media playback, the microphone, the camera and storage: nothing is undone.
\* A recording is stored when it stops; pause only acts on what is playing.
InitialDevice == [media |-> "stopped", microphone |-> "idle", recordings |-> {}, photos |-> {},
                  formatted |-> FALSE, cached |-> TRUE]
MediaCalls == {"play", "pause", "stop"}
MicrophoneCalls == {"record.start", "record.stop"}
CameraCalls == {"capture"}
StorageCalls == {"format", "clear_cache"}
DeviceCalls == MediaCalls \cup MicrophoneCalls \cup CameraCalls \cup StorageCalls

DeviceRefuses(s, a) ==
    \/ a = "record.start" /\ s.microphone # "idle"
    \/ a = "record.stop" /\ s.microphone # "recording"

MediaEffect(s, a) ==
    CASE a = "play" -> [s EXCEPT !.media = "playing"]
      [] a = "pause" -> [s EXCEPT !.media = IF @ = "playing" THEN "paused" ELSE @]
      [] a = "stop" -> [s EXCEPT !.media = "stopped"]
MicrophoneEffect(s, a, c) ==
    IF a = "record.start" THEN [s EXCEPT !.microphone = "recording"]
    ELSE [s EXCEPT !.microphone = "idle", !.recordings = @ \cup {c}]
CameraEffect(s, c) == [s EXCEPT !.photos = @ \cup {c}]
StorageEffect(s, a) ==
    IF a = "format" THEN [s EXCEPT !.formatted = TRUE, !.cached = FALSE]
    ELSE [s EXCEPT !.cached = FALSE]

DeviceEffect(s, a, c) ==
    CASE a \in MediaCalls      -> MediaEffect(s, a)
      [] a \in MicrophoneCalls -> MicrophoneEffect(s, a, c)
      [] a \in CameraCalls     -> CameraEffect(s, c)
      [] a \in StorageCalls    -> StorageEffect(s, a)

=============================================================================
