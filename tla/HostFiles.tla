-------------------------------- MODULE HostFiles --------------------------------
(***************************************************************************)
(* The skills that write and read files of the host                        *)
(* (tools/goat_skills/write_file.py and read_file.py).  Each call runs in  *)
(* a thread of its own: calls of different chats overlap, fail at any      *)
(* system call, and end with the process.  A content is two halves; a file *)
(* is an inode, a path and its temporary neighbour name one or none.       *)
(***************************************************************************)
EXTENDS Integers, Sequences

CONSTANTS Spots, Place,   \* Place[p]: free, directory, orphan (no parent yet) or under a file
          Writers, Readers,
          At,             \* At[c]: the path of a call
          Mode,           \* Mode[w]: overwrite or append
          MaxKills

ASSUME HostFilesBounds ==
  /\ MaxKills \in Nat /\ 0 \notin Writers
  /\ At \in [Writers \cup Readers -> Spots] /\ Mode \in [Writers -> {"overwrite", "append"}]

VARIABLES names, temps,   \* the inode of a path, of its ".goat_write_tmp"; 0 is none
          data,           \* the inodes: the halves in each
          parents,        \* the paths whose parent directory exists
          wpc, wfd, wdone, \* of each write: where it is, its open file, the halves it has written
          rpc, rfd, got,  \* of each read
          kills,
          wrote,          \* history: the acknowledged writes a path should hold, in order
          overlapped      \* history: the paths where an overwrite met another write

filevars == <<names, temps, data, parents, wpc, wfd, wdone, rpc, rfd, got, kills, wrote, overlapped>>
disk == <<names, temps, data, parents>>
writing == <<wpc, wfd, wdone, wrote, overlapped>>
reading == <<rpc, rfd, got>>

FilesInit ==
  /\ names = [p \in Spots |-> 0] /\ temps = [p \in Spots |-> 0] /\ data = <<>>
  /\ parents = {p \in Spots : Place[p] # "orphan"}
  /\ wpc = [w \in Writers |-> "start"] /\ wfd = [w \in Writers |-> 0] /\ wdone = [w \in Writers |-> 0]
  /\ rpc = [r \in Readers |-> "start"] /\ rfd = [r \in Readers |-> 0] /\ got = [r \in Readers |-> <<>>]
  /\ kills = 0 /\ wrote = [p \in Spots |-> <<>>] /\ overlapped = {}

Busy == {"overwrite", "append", "temp", "adds"}
To(w, pc) == wpc' = [wpc EXCEPT ![w] = pc]
Ends(w, pc) == To(w, pc) /\ wfd' = [wfd EXCEPT ![w] = 0] /\ wdone' = [wdone EXCEPT ![w] = 0]

--------------------------------------------------------------------------------
\* A content over the cap, a path that is no place for a file.
Refuse(w, long, createDirs) ==
  /\ wpc[w] = "start"
  /\ \/ long
     \/ Place[At[w]] \in {"directory", "under a file"}
     \/ At[w] \notin parents /\ ~createDirs
  /\ To(w, "refused")
  /\ UNCHANGED <<disk, reading, wfd, wdone, kills, wrote, overlapped>>

\* _write: directories are made; an append to a file that is not there is an overwrite.
Decide(w) ==
  /\ wpc[w] = "start" /\ Place[At[w]] \in {"free", "orphan"}
  /\ parents' = parents \cup {At[w]}
  /\ LET way == IF Mode[w] = "append" /\ names[At[w]] # 0 THEN "append" ELSE "overwrite"
         met == {v \in Writers \ {w} : At[v] = At[w] /\ wpc[v] \in Busy}
     IN  /\ To(w, way)
         /\ overlapped' = IF \E v \in met : {way, wpc[v]} \cap {"overwrite", "temp"} # {}
                          THEN overlapped \cup {At[w]} ELSE overlapped
  /\ UNCHANGED <<names, temps, data, reading, wfd, wdone, kills, wrote>>

OpenAppend(w) ==
  /\ wpc[w] = "append"
  /\ wfd' = [wfd EXCEPT ![w] = names[At[w]]] /\ To(w, "adds")
  /\ UNCHANGED <<disk, reading, wdone, kills, wrote, overlapped>>

\* Mutant: the file itself is opened, which empties it.
OpenTarget(w) ==
  LET p == At[w]
  IN  /\ wpc[w] = "overwrite"
      /\ names' = [names EXCEPT ![p] = IF @ = 0 THEN Len(data) + 1 ELSE @]
      /\ data' = IF names[p] = 0 THEN Append(data, <<>>) ELSE [data EXCEPT ![names[p]] = <<>>]
      /\ wfd' = [wfd EXCEPT ![w] = names'[p]] /\ To(w, "temp")
      /\ UNCHANGED <<temps, parents, reading, wdone, kills, wrote, overlapped>>

\* write_bytes: the temporary file is created, or emptied if one is there.
OpenTemp(w) ==
  LET p == At[w]
  IN  /\ wpc[w] = "overwrite"
      /\ temps' = [temps EXCEPT ![p] = IF @ = 0 THEN Len(data) + 1 ELSE @]
      /\ data' = IF temps[p] = 0 THEN Append(data, <<>>) ELSE [data EXCEPT ![temps[p]] = <<>>]
      /\ wfd' = [wfd EXCEPT ![w] = temps'[p]] /\ To(w, "temp")
      /\ UNCHANGED <<names, parents, reading, wdone, kills, wrote, overlapped>>

\* A write at the file's end for an append, else where this call has got to; a gap is zeroes.
Put(content, half, at) ==
  [k \in 1 .. IF at > Len(content) THEN at ELSE Len(content) |->
     IF k = at THEN half ELSE IF k <= Len(content) THEN content[k] ELSE <<0, 0>>]

WriteHalf(w) ==
  /\ wpc[w] \in {"temp", "adds"} /\ wdone[w] < 2
  /\ wdone' = [wdone EXCEPT ![w] = @ + 1]
  /\ LET content == data[wfd[w]]
     IN  data' = [data EXCEPT ![wfd[w]] =
                    Put(content, <<w, wdone'[w]>>, IF wpc[w] = "adds" THEN Len(content) + 1 ELSE wdone'[w])]
  /\ UNCHANGED <<names, temps, parents, reading, wpc, wfd, kills, wrote, overlapped>>

Appended(w) ==
  /\ wpc[w] = "adds" /\ wdone[w] = 2
  /\ Ends(w, "done") /\ wrote' = [wrote EXCEPT ![At[w]] = Append(@, w)]
  /\ UNCHANGED <<disk, reading, kills, overlapped>>

Unlink(w) == temps' = [temps EXCEPT ![At[w]] = 0]

\* The temporary file takes the path; if another call has moved it away, this one fails.
Replace(w) ==
  /\ wpc[w] = "temp" /\ wdone[w] = 2
  /\ Unlink(w)
  /\ IF temps[At[w]] = 0 THEN Ends(w, "error") /\ UNCHANGED <<names, wrote>>
     ELSE /\ names' = [names EXCEPT ![At[w]] = temps[At[w]]]
          /\ Ends(w, "done") /\ wrote' = [wrote EXCEPT ![At[w]] = <<w>>]
  /\ UNCHANGED <<data, parents, reading, kills, overlapped>>

\* An OSError: of an overwrite the temporary file is removed; what was appended stays.
WriteFails(w) ==
  /\ wpc[w] \in {"overwrite", "temp", "append", "adds"}
  /\ IF wpc[w] \in {"overwrite", "temp"} THEN Unlink(w) ELSE UNCHANGED temps
  /\ Ends(w, "error")
  /\ UNCHANGED <<names, data, parents, reading, kills, wrote, overlapped>>

\* _read: no such file, a directory, one too large, no permission.
OpenRead(r, refused) ==
  /\ rpc[r] = "start"
  /\ IF refused \/ names[At[r]] = 0
     THEN rpc' = [rpc EXCEPT ![r] = "error"] /\ UNCHANGED rfd
     ELSE rpc' = [rpc EXCEPT ![r] = "reads"] /\ rfd' = [rfd EXCEPT ![r] = names[At[r]]]
  /\ UNCHANGED <<disk, writing, kills, got>>

\* read_bytes: on from where it has got to, until there is no more.
Read(r) ==
  LET content == data[rfd[r]]
  IN  /\ rpc[r] = "reads"
      /\ IF Len(got[r]) < Len(content)
         THEN got' = [got EXCEPT ![r] = Append(@, content[Len(@) + 1])] /\ UNCHANGED rpc
         ELSE rpc' = [rpc EXCEPT ![r] = "done"] /\ UNCHANGED got
      /\ rfd' = [rfd EXCEPT ![r] = IF rpc'[r] = "done" THEN 0 ELSE @]
      /\ UNCHANGED <<disk, writing, kills>>

\* The process ends; the files stay as they are.
Kill ==
  LET killed == {w \in Writers : wpc[w] \in Busy}
  IN  /\ kills < MaxKills /\ killed # {} /\ kills' = kills + 1
      /\ wpc' = [w \in Writers |-> IF w \in killed THEN "killed" ELSE wpc[w]]
      /\ wfd' = [w \in Writers |-> 0] /\ wdone' = [w \in Writers |-> 0]
      /\ rpc' = [r \in Readers |-> IF rpc[r] = "reads" THEN "killed" ELSE rpc[r]]
      /\ UNCHANGED <<disk, wrote, overlapped, rfd, got>>

FilesNext ==
  \/ \E w \in Writers :
       \/ \E long, createDirs \in BOOLEAN : Refuse(w, long, createDirs)
       \/ Decide(w) \/ OpenAppend(w) \/ OpenTemp(w) \/ WriteHalf(w) \/ Appended(w) \/ Replace(w) \/ WriteFails(w)
  \/ \E r \in Readers : Read(r) \/ \E refused \in BOOLEAN : OpenRead(r, refused)
  \/ Kill

FilesSpec == FilesInit /\ [][FilesNext]_filevars

--------------------------------------------------------------------------------
(* A content has nothing of a write, or its two halves, in order and once; of
   overwrites it has one, whole, or none. *)
Lacks(content, w) == \A k \in 1 .. Len(content) : content[k][1] # w
Holds(content, w) ==
  \E i, j \in 1 .. Len(content) :
    /\ i < j /\ content[i] = <<w, 1>> /\ content[j] = <<w, 2>>
    /\ \A k \in 1 .. Len(content) : content[k][1] = w => k \in {i, j}
Overwriting == {w \in Writers : Mode[w] = "overwrite"}
Unmixed(content) ==
  /\ \A w \in Overwriting : Lacks(content, w) \/ Holds(content, w)
  /\ \A v, w \in Overwriting : v # w => Lacks(content, v) \/ Lacks(content, w)

(* A path that no overwrite shared with another running write holds at every
   moment, a kill or a failure included, all of each write it has acknowledged,
   and of one overwrite all and of any other nothing; a reader of it never sees
   part of an overwrite, nor two of them (write_file.py:59-80, read_file.py:43-68). *)
FilesWhole ==
  \A p \in Spots \ overlapped :
    /\ names[p] # 0 => /\ \A i \in 1 .. Len(wrote[p]) : Holds(data[names[p]], wrote[p][i])
                      /\ Unmixed(data[names[p]])
    /\ wrote[p] # <<>> => names[p] # 0
    /\ \A r \in Readers : At[r] = p /\ rpc[r] = "done" => Unmixed(got[r])
================================================================================
