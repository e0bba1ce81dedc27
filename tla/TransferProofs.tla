---------------------------- MODULE TransferProofs ----------------------------
(***************************************************************************)
(* Proofs about what is sent and received.                                 *)
(*                                                                         *)
(* Download, for any songs, sizes and numbers of downloads: what           *)
(* descriptors are open at each point of getMP3FileFromClient, and what is *)
(* in a file that is reported as complete.                                 *)
(*                                                                         *)
(* Updates, for any clients, tokens and numbers of updates: what is in a   *)
(* packet and what a client makes of it, and who is told of what while     *)
(* clients come, go and fail.                                              *)
(*                                                                         *)
(* Dropping, for any clients, workers and failures: a worker that          *)
(* deregisters a client can clear a slot long after it read its status.    *)
(* Short of that the slots agree with the state machine at every step of   *)
(* it, and a download is awaited exactly while there is one.  The          *)
(* invariant says where each thread can be with what.                      *)
(***************************************************************************)
EXTENDS MCTransfers, SequenceTheorems, TLAPS

Flag(b) == IF b THEN 1 ELSE 0

\* The file is open while it is filled, the socket from the connection to the end.
OpenWhileUsed ==
    /\ unreached \in Nat
    /\ fds = Flag(dwPc = "receive")
    /\ sockets = unreached + Flag(dwPc \in {"request", "size", "open", "receive"})

LEMMA OpenInit == Init => OpenWhileUsed
  BY DEF Init, OpenWhileUsed, Flag

LEMMA OpenStep == ASSUME OpenWhileUsed, [Next]_vars PROVE OpenWhileUsed'
<1> USE DEF OpenWhileUsed, Flag, fileVars, dwVars
<1>1. ASSUME NEW s \in Song, getRequestForDownloading(s) PROVE OpenWhileUsed'
  BY <1>1 DEF getRequestForDownloading
<1>2. ASSUME downloadReady \/ downloadFailed \/ deleteReady \/ getRequestForPlaying
      PROVE  OpenWhileUsed'
  BY <1>2 DEF downloadReady, downloadFailed, deleteReady, getRequestForPlaying
<1>3. ASSUME Crash PROVE OpenWhileUsed'
  BY <1>3 DEF Crash
<1>4. ASSUME NoSocket \/ ConnectFails \/ Connect PROVE OpenWhileUsed'
  BY <1>4 DEF NoSocket, ConnectFails, Connect
<1>5. ASSUME Sends \/ FailsBeforeFile \/ ReceiveSize \/ Open PROVE OpenWhileUsed'
  BY <1>5 DEF Sends, FailsBeforeFile, ReceiveSize, Open
<1>6. ASSUME Receive \/ ReceiveFails \/ Write \/ Completes PROVE OpenWhileUsed'
  BY <1>6 DEF Receive, ReceiveFails, Write, Completes
<1>7. ASSUME UNCHANGED vars PROVE OpenWhileUsed'
  BY <1>7 DEF vars
<1> QED BY <1>1, <1>2, <1>3, <1>4, <1>5, <1>6, <1>7 DEF Next, getMP3FileFromClient

\* A job closes its file and its socket, whichever call fails; only the socket of a
\* connection that fails stays open (serverRoutine.c:232-309, gsocket.c:124-130).
THEOREM DescriptorsAreGivenBack == Spec => []DescriptorsAreClosed
<1>1. OpenWhileUsed => DescriptorsAreClosed
  BY DEF OpenWhileUsed, Flag, DescriptorsAreClosed
<1> QED BY <1>1, OpenInit, OpenStep, PTL DEF Spec

-----------------------------------------------------------------------------
(* The content of the files.                                                *)

File == disk[FileName[song]]

\* The file begins with n units of the song, and what comes after them was there before.
Holds(n) ==
    /\ n <= Len(File)
    /\ \A k \in 1 .. n : File[k] = <<song, k>>
    /\ Len(File) > n => FileName[song] \in kept

\* While it is filled the file holds what has been read; as short may be set again only
\* by the next job, nothing is said of a file once a write has stored too little.
Filling ==
    /\ received <= currentRead
    /\ totalRead <= Length[song]
    /\ offset <= Len(File)
    /\ ~short => offset = totalRead /\ Holds(totalRead)

\* Every file but the one of the slot has been left by a crash or by a song that was played.
OthersAreKept ==
    \A f \in Range(FileName) :
        disk[f] # <<>> /\ f \notin kept =>
            /\ f = FileName[song]
            /\ dwPc \in {"receive", "error", "complete"} \/ slot = "PL_READY"

FileInv ==
    /\ TypeOK
    /\ OpenWhileUsed
    /\ slot = "PL_DOWNLOADING" <=> dwPc # "idle"
    /\ slot # "PL_NONE" => song \in Song
    /\ dwPc = "receive" => Filling
    /\ (dwPc = "complete" \/ slot = "PL_READY") /\ ~short => Holds(Length[song])
    /\ OthersAreKept

LEMMA DataAssumption ==
    /\ \A s \in Song : Length[s] \in Nat /\ Length[s] > 0 /\ FileName[s] \in Range(FileName)
    /\ \A s \in Song : \A k \in 1 .. Length[s] : <<s, k>> \in Unit
    /\ NoSong \notin Song /\ Block \in Nat /\ Block > 0
    /\ MaxDownloads \in Nat /\ MaxCrashes \in Nat
  BY DownloadAssumption DEF Unit

LEMMA FileType ==
    ASSUME disk \in [Range(FileName) -> Seq(Unit)], song \in Song
    PROVE  /\ File \in Seq(Unit)
           /\ Len(File) \in Nat
           /\ File \in [1 .. Len(File) -> Unit]
           /\ File = <<>> <=> Len(File) = 0
<1>1. File \in Seq(Unit)
  BY DataAssumption DEF File
<1> QED BY <1>1, LenProperties, EmptySeq

\* What a write makes of the file.
LEMMA StoredType ==
    ASSUME TypeOK, song \in Song, Filling, NEW n \in 0 .. received
    PROVE  /\ Stored(n) \in Seq(Unit)
           /\ Len(Stored(n)) = IF offset + n > Len(File) THEN offset + n ELSE Len(File)
           /\ \A k \in 1 .. Len(Stored(n)) :
                 Stored(n)[k] = IF k \in offset + 1 .. offset + n
                                THEN <<song, totalRead + k - offset>> ELSE File[k]
<1> DEFINE len == IF offset + n > Len(File) THEN offset + n ELSE Len(File)
           unit(k) == IF k \in offset + 1 .. offset + n
                      THEN <<song, totalRead + k - offset>> ELSE File[k]
<1>1. /\ offset \in Nat /\ n \in Nat /\ totalRead \in Nat /\ received \in Nat
      /\ Len(File) \in Nat /\ File \in [1 .. Len(File) -> Unit]
      /\ Length[song] \in Nat /\ Block \in Nat
      /\ offset <= Len(File) /\ n <= received
  BY FileType, DataAssumption DEF TypeOK, Filling
<1>2. totalRead + n <= Length[song]
  BY <1>1 DEF Filling, currentRead, Smaller
<1>3. len \in Nat /\ Stored(n) = [k \in 1 .. len |-> unit(k)]
  BY <1>1 DEF Stored, File
<1>4. ASSUME NEW k \in 1 .. len PROVE unit(k) \in Unit
  <2>1. CASE k \in offset + 1 .. offset + n
    <3>1. totalRead + k - offset \in 1 .. Length[song]
      BY <1>1, <1>2, <2>1
    <3> QED BY <2>1, <3>1, DataAssumption
  <2>2. CASE k \notin offset + 1 .. offset + n
    <3>1. k \in 1 .. Len(File)
      BY <1>1, <2>2
    <3> QED BY <1>1, <2>2, <3>1
  <2> QED BY <2>1, <2>2
<1>5. Stored(n) \in [1 .. len -> Unit]
  BY <1>3, <1>4
<1> HIDE DEF len, unit
<1>6. Stored(n) \in Seq(Unit) /\ Len(Stored(n)) = len
  <2> DEFINE s == Stored(n)
  <2>1. len \in Nat /\ s \in [1 .. len -> Unit]
    BY <1>3, <1>5
  <2> HIDE DEF s
  <2>2. s \in Seq(Unit)
    BY <2>1, SeqDef
  <2>3. Len(s) = len
    BY <2>1, <2>2, LenProperties
  <2> QED BY <2>2, <2>3 DEF s
<1> QED BY <1>3, <1>6 DEF len, unit

LEMMA TypeInit == Init => TypeOK
<1> SUFFICES ASSUME Init PROVE TypeOK
  OBVIOUS
<1>1. disk \in [Range(FileName) -> Seq(Unit)]
  BY EmptySeq DEF Init
<1>2. received \in 0 .. Block /\ downloads \in 0 .. MaxDownloads /\ crashes \in 0 .. MaxCrashes
  BY DataAssumption DEF Init
<1> QED BY <1>1, <1>2 DEF Init, TypeOK, DwPc

LEMMA TypeStep == ASSUME FileInv, [Next]_vars, OpenWhileUsed' PROVE TypeOK'
<1>1. TypeOK /\ sockets' \in Nat /\ fds' \in Nat /\ unreached' \in Nat
  <2>1. TypeOK
    BY DEF FileInv
  <2>2. ASSUME NEW b PROVE Flag(b) \in Nat
    BY DEF Flag
  <2>3. sockets' \in Nat /\ fds' \in Nat /\ unreached' \in Nat
    BY <2>2 DEF OpenWhileUsed
  <2> QED BY <2>1, <2>3
<1> USE DEF TypeOK, DwPc, fileVars, dwVars, rmVars
<1>2. ASSUME NEW s \in Song, getRequestForDownloading(s) PROVE TypeOK'
  BY <1>1, <1>2, DataAssumption DEF getRequestForDownloading
<1>3. CASE downloadReady
  BY <1>1, <1>3 DEF downloadReady
<1>4. CASE downloadFailed \/ deleteReady
  <2>1. disk' \in [Range(FileName) -> Seq(Unit)]
    BY <1>1, <1>4, EmptySeq DEF downloadFailed, deleteReady, unlink
  <2> QED BY <1>1, <1>4, <2>1 DEF downloadFailed, deleteReady, unlink
<1>5. CASE getRequestForPlaying
  BY <1>1, <1>5, DataAssumption DEF getRequestForPlaying, FileInv
<1>6. CASE Crash
  <2>1. crashes' \in 0 .. MaxCrashes
    BY <1>1, <1>6, DataAssumption DEF Crash
  <2>2. kept' \subseteq Range(FileName)
    BY <1>1, <1>6 DEF Crash
  <2>3. /\ song' = NoSong /\ dwPc' = "idle" /\ slot' = "PL_NONE"
        /\ UNCHANGED <<disk, offset, short, received, totalRead, downloads>>
    BY <1>6 DEF Crash
  <2> QED BY <1>1, <2>1, <2>2, <2>3
<1>7. CASE NoSocket \/ ConnectFails \/ Connect \/ Sends \/ FailsBeforeFile \/ ReceiveSize
  <2>1. Sends \/ (dwPc' \in DwPc /\ UNCHANGED <<fileVars, rmVars, song, received, totalRead>>)
    BY <1>7 DEF NoSocket, ConnectFails, Connect, FailsBeforeFile, ReceiveSize
  <2> QED BY <1>1, <2>1 DEF Sends
<1>12. CASE Open
  <2>1. received' \in 0 .. Block
    BY <1>12, DataAssumption DEF Open
  <2> QED BY <1>1, <1>12, <2>1 DEF Open
<1>8. CASE Receive
  <2>1. received' \in 0 .. Block
    BY <1>1, <1>8, DataAssumption DEF Receive, FileInv, Filling, currentRead, Smaller
  <2> QED BY <1>1, <1>8, <2>1 DEF Receive
<1>9. CASE ReceiveFails \/ Completes
  BY <1>1, <1>9 DEF ReceiveFails, Completes
<1>10. CASE Write
  <2>1. song \in Song /\ Filling
    BY <1>10 DEF Write, FileInv
  <2>2. disk' \in [Range(FileName) -> Seq(Unit)]
    BY <1>1, <1>10, <2>1, StoredType DEF Write
  <2> QED BY <1>1, <1>10, <2>2, DataAssumption DEF Write
<1>11. CASE UNCHANGED vars
  BY <1>1, <1>11 DEF vars
<1> QED BY <1>2, <1>3, <1>4, <1>5, <1>6, <1>7, <1>8, <1>9, <1>10, <1>11, <1>12
        DEF Next, getMP3FileFromClient

\* What is neither in the file nor about it.
LEMMA FileSame ==
    ASSUME FileInv, UNCHANGED <<disk, song, kept, short>>
    PROVE  /\ UNCHANGED File
           /\ \A n : Holds(n)' <=> Holds(n)
  BY DEF File, Holds

LEMMA FileStep == ASSUME FileInv, [Next]_vars PROVE FileInv'
<1>1. OpenWhileUsed' /\ TypeOK' /\ TypeOK
  BY OpenStep, TypeStep DEF FileInv
<1> DEFINE Rest ==
              /\ slot = "PL_DOWNLOADING" <=> dwPc # "idle"
              /\ slot # "PL_NONE" => song \in Song
              /\ dwPc = "receive" => Filling
              /\ (dwPc = "complete" \/ slot = "PL_READY") /\ ~short => Holds(Length[song])
              /\ OthersAreKept
<1>2. Rest /\ (Rest' => FileInv')
  BY <1>1 DEF FileInv
<1> USE DEF fileVars, dwVars, rmVars
<1>3. ASSUME NEW s \in Song, getRequestForDownloading(s) PROVE Rest'
  BY <1>2, <1>3 DEF getRequestForDownloading, OthersAreKept
<1>4. CASE downloadReady
  <2>1. \A n : Holds(n)' <=> Holds(n)
    BY <1>4, FileSame DEF downloadReady
  <2> QED BY <1>2, <1>4, <2>1 DEF downloadReady, OthersAreKept
<1>5. CASE downloadFailed \/ deleteReady
  <2>1. /\ dwPc' = "idle" /\ slot' = "PL_NONE"
        /\ disk' = [disk EXCEPT ![FileName[song]] = <<>>]
        /\ kept' = kept \ {FileName[song]}
    BY <1>2, <1>5 DEF downloadFailed, deleteReady, unlink
  <2>2. OthersAreKept'
    BY <1>1, <1>2, <2>1 DEF OthersAreKept, TypeOK
  <2> QED BY <1>2, <2>1, <2>2
<1>6. CASE getRequestForPlaying
  <2>1. OthersAreKept'
    BY <1>2, <1>6 DEF getRequestForPlaying, OthersAreKept
  <2> QED BY <1>2, <1>6, <2>1 DEF getRequestForPlaying
<1>7. CASE Crash
  <2>1. OthersAreKept'
    BY <1>1, <1>7 DEF Crash, OthersAreKept, TypeOK
  <2> QED BY <1>2, <1>7, <2>1 DEF Crash
<1>8. CASE NoSocket \/ ConnectFails \/ Connect \/ Sends \/ FailsBeforeFile \/ ReceiveSize
  BY <1>2, <1>8
     DEF NoSocket, ConnectFails, Connect, Sends, FailsBeforeFile, ReceiveSize, OthersAreKept
<1>9. CASE Open
  <2>1. song \in Song /\ dwPc = "open" /\ slot = "PL_DOWNLOADING"
    BY <1>2, <1>9 DEF Open
  <2>2. Len(File) \in Nat /\ (File = <<>> <=> Len(File) = 0)
    BY <1>1, <2>1, FileType DEF TypeOK
  <2>3. FileName[song] \in Range(FileName) /\ Length[song] \in Nat /\ Block \in Nat
    BY <2>1, DataAssumption
  <2>4. File # <<>> => FileName[song] \in kept
    BY <1>2, <2>1, <2>3 DEF OthersAreKept, File
  <2>5. UNCHANGED <<disk, kept, song, slot>> /\ offset' = 0 /\ totalRead' = 0 /\ received' = 0
        /\ dwPc' = "receive"
    BY <1>9 DEF Open
  <2>6. UNCHANGED File /\ Holds(0)'
    BY <2>2, <2>4, <2>5 DEF Holds, File
  <2>7. Filling'
    BY <2>2, <2>3, <2>5, <2>6 DEF Filling, currentRead, Smaller
  <2>8. OthersAreKept'
    BY <1>2, <2>5 DEF OthersAreKept
  <2> QED BY <1>2, <2>1, <2>5, <2>7, <2>8
<1>10. CASE Receive
  <2>1. UNCHANGED <<disk, song, kept, short, slot, dwPc, offset, totalRead>>
        /\ dwPc = "receive" /\ received' <= currentRead
    BY <1>1, <1>2, <1>10, DataAssumption DEF Receive, TypeOK, currentRead, Smaller
  <2>2. UNCHANGED File /\ (\A n : Holds(n)' <=> Holds(n))
    BY <2>1, FileSame
  <2>3. Filling' /\ OthersAreKept'
    BY <1>2, <2>1, <2>2 DEF Filling, OthersAreKept, currentRead
  <2> QED BY <1>2, <2>1, <2>3
<1>11. CASE ReceiveFails
  BY <1>2, <1>11 DEF ReceiveFails, OthersAreKept
<1>12. CASE Completes
  <2>1. \A n : Holds(n)' <=> Holds(n)
    BY <1>12, FileSame DEF Completes
  <2>2. ~short => Holds(Length[song])
    BY <1>2, <1>12 DEF Completes, Filling
  <2> QED BY <1>2, <1>12, <2>1, <2>2 DEF Completes, OthersAreKept
<1>13. CASE Write
  <2>1. song \in Song /\ Filling /\ dwPc = "receive" /\ slot = "PL_DOWNLOADING"
    BY <1>1, <1>2, <1>13 DEF Write, TypeOK
  <2>2. PICK n \in 0 .. received :
           /\ disk' = [disk EXCEPT ![FileName[song]] = Stored(n)]
           /\ offset' = offset + n
           /\ short' = (short \/ n < received)
    BY <1>13 DEF Write
  <2>3. /\ UNCHANGED <<kept, song, slot, dwPc>>
        /\ received = currentRead /\ totalRead' = totalRead + received /\ received' = 0
    BY <1>13 DEF Write
  <2>4. /\ offset \in Nat /\ totalRead \in Nat /\ received \in Nat /\ short \in BOOLEAN
        /\ Len(File) \in Nat /\ Length[song] \in Nat /\ Block \in Nat /\ Block > 0
        /\ FileName[song] \in Range(FileName)
    BY <1>1, <2>1, FileType, DataAssumption DEF TypeOK
  <2>5. File' = Stored(n)
    BY <1>1, <2>2, <2>3, <2>4 DEF File, TypeOK
  <2>6. /\ Len(File') = IF offset + n > Len(File) THEN offset + n ELSE Len(File)
        /\ \A k \in 1 .. Len(File') :
              File'[k] = IF k \in offset + 1 .. offset + n
                         THEN <<song, totalRead + k - offset>> ELSE File[k]
    BY <1>1, <2>1, <2>5, StoredType
  <2>7. totalRead' <= Length[song] /\ received' <= currentRead' /\ offset' <= Len(File')
    <3>1. Len(File') = IF offset + n > Len(File) THEN offset + n ELSE Len(File)
      BY <2>6
    <3>2. PICK m \in Nat : m = Len(File)
      BY <2>4
    <3>3. offset' <= Len(File')
      BY <2>2, <2>4, <3>1, <3>2
    <3>4. totalRead' <= Length[song]
      BY <2>1, <2>3, <2>4 DEF Filling, currentRead, Smaller
    <3>5. received' <= currentRead'
      BY <2>3, <2>4, <3>4 DEF currentRead, Smaller
    <3> QED BY <3>3, <3>4, <3>5
  <2>8. ASSUME ~short' PROVE offset' = totalRead' /\ Holds(totalRead)'
    <3>1. ~short /\ n = received /\ offset = totalRead /\ Holds(totalRead)
      <4>1. ~short /\ ~(n < received)
        BY <2>2, <2>8, Zenon
      <4>2. n = received
        BY <2>4, <4>1
      <4> QED BY <2>1, <4>1, <4>2 DEF Filling
    <3>2. offset' = totalRead' /\ totalRead' = totalRead + received
      BY <2>2, <2>3, <3>1
    <3>3. totalRead' <= Len(File')
      BY <2>7, <3>2
    <3>4. \A k \in 1 .. totalRead' : File'[k] = <<song', k>>
      <4> SUFFICES ASSUME NEW k \in 1 .. totalRead' PROVE File'[k] = <<song, k>>
        BY <2>3
      <4>1. k \in 1 .. Len(File')
        BY <2>4, <2>6, <3>2, <3>3
      <4>2. CASE k <= totalRead
        <5>1. k \in 1 .. totalRead /\ k \notin offset + 1 .. offset + n
          BY <2>4, <3>1, <4>1, <4>2
        <5>2. File[k] = <<song, k>>
          BY <3>1, <5>1 DEF Holds
        <5> QED BY <2>6, <4>1, <5>1, <5>2
      <4>3. CASE k > totalRead
        <5>1. k \in offset + 1 .. offset + n /\ totalRead + k - offset = k
          BY <2>4, <3>1, <3>2, <4>3
        <5> QED BY <2>6, <4>1, <5>1
      <4> QED BY <2>4, <3>2, <4>2, <4>3
    <3>5. Len(File') > totalRead' => FileName[song] \in kept'
      BY <2>3, <2>4, <2>6, <3>1, <3>2 DEF Holds
    <3> QED BY <2>3, <3>2, <3>3, <3>4, <3>5 DEF Holds
  <2>9. Filling'
    <3>1. ~short' => offset' = totalRead' /\ Holds(totalRead)'
      BY <2>8
    <3> QED BY <2>3, <2>7, <3>1 DEF Filling
  <2>10. OthersAreKept'
    BY <1>1, <1>2, <2>1, <2>2, <2>3 DEF OthersAreKept, TypeOK
  <2> QED BY <1>2, <2>1, <2>3, <2>9, <2>10
<1>14. CASE UNCHANGED vars
  <2>1. UNCHANGED File /\ (\A n : Holds(n)' <=> Holds(n))
    BY <1>14, FileSame DEF vars
  <2> QED BY <1>2, <1>14, <2>1 DEF vars, OthersAreKept, Filling, currentRead
<1> HIDE DEF Rest
<1> QED BY <1>2, <1>3, <1>4, <1>5, <1>6, <1>7, <1>8, <1>9, <1>10, <1>11, <1>12, <1>13, <1>14
        DEF Next, getMP3FileFromClient

LEMMA FilesSafe == Spec => []FileInv
<1>1. Init => FileInv
  <2> SUFFICES ASSUME Init PROVE FileInv
    OBVIOUS
  <2>1. OthersAreKept
    BY DEF Init, OthersAreKept
  <2> QED BY <2>1, TypeInit, OpenInit DEF Init, FileInv
<1> QED BY <1>1, FileStep, PTL DEF Spec

\* A song that is reported as complete is in its file from the first unit to the last
\* (serverRoutine.c:286-307), with nothing after it but what a crash or a song that was
\* played has left there, if every write stored what it was given.
THEOREM ReadyFileIsRight == Spec => []ReadyFileIsSong
<1>1. ASSUME FileInv, slot = "PL_READY", ~short
      PROVE  /\ IsPrefix([k \in 1 .. Length[song] |-> <<song, k>>], File)
             /\ Len(File) > Length[song] => FileName[song] \in kept
  <2> DEFINE s == [k \in 1 .. Length[song] |-> <<song, k>>]
             n == Length[song]
  <2>1. song \in Song /\ Holds(n) /\ TypeOK
    BY <1>1 DEF FileInv
  <2>2. n \in Nat /\ (\A k \in 1 .. n : <<song, k>> \in Unit) /\ File \in Seq(Unit)
    BY <2>1, DataAssumption, FileType DEF TypeOK
  <2>3. s \in Seq(Unit) /\ Len(s) = n /\ \A k \in 1 .. n : s[k] = <<song, k>>
    <3>1. s \in [1 .. n -> Unit]
      BY <2>2
    <3>2. \A k \in 1 .. n : s[k] = <<song, k>>
      OBVIOUS
    <3> HIDE DEF s, n
    <3>3. s \in Seq(Unit)
      BY <2>2, <3>1, SeqDef
    <3> QED BY <2>2, <3>1, <3>2, <3>3, LenProperties
  <2> HIDE DEF s, n
  <2>4. SubSeq(s, 1, n) = SubSeq(File, 1, n)
    <3>1. n <= Len(File) /\ \A k \in 1 .. n : s[k] = File[k]
      BY <2>1, <2>3 DEF Holds
    <3>2. SubSeq(s, 1, n) = [k \in 1 .. n |-> s[k]]
      BY <2>2, <2>3
    <3>3. SubSeq(File, 1, n) = [k \in 1 .. n |-> File[k]]
      BY <2>2, <3>1
    <3> QED BY <3>1, <3>2, <3>3
  <2>5. IsPrefix(s, File)
    BY <2>1, <2>3, <2>4 DEF IsPrefix, Holds
  <2> QED BY <2>1, <2>5 DEF Holds, s, n
<1>2. FileInv => ReadyFileIsSong
  BY <1>1 DEF ReadyFileIsSong, File
<1> QED BY <1>2, FilesSafe, PTL

-----------------------------------------------------------------------------
(* Packets.                                                                 *)

\* A u32.
U32Bytes == {w \in Seq(Nat) : Len(w) = 4}

HeaderData == [signature : Nat, totalSize : U32Bytes, msgId : Nat, clntId : Telling!ClientId,
               token : U32Bytes, isLast : Nat]
MsgData == [header : HeaderData, payLoad : Seq(Nat)]

LEMMA TupleBytes ==
    ASSUME NEW a \in Nat, NEW b \in Nat, NEW c \in Nat, NEW d \in Nat
    PROVE  <<a, b, c, d>> \in U32Bytes
  BY DEF U32Bytes

LEMMA WordBytes ==
    ASSUME NEW w \in U32Bytes
    PROVE  /\ w \in Seq(Nat) /\ Len(w) = 4
           /\ Telling!Swap(w) \in U32Bytes
           /\ Telling!Swap(w)[1] = w[4] /\ Telling!Swap(w)[2] = w[3]
           /\ Telling!Swap(w)[3] = w[2] /\ Telling!Swap(w)[4] = w[1]
           /\ Telling!Swap(Telling!Swap(w)) = w
<1>1. w \in Seq(Nat) /\ Len(w) = 4
  BY DEF U32Bytes
<1>2. \A k \in 1 .. 4 : w[k] \in Nat
  BY <1>1, ElementOfSeq
<1>3. w[1] \in Nat /\ w[2] \in Nat /\ w[3] \in Nat /\ w[4] \in Nat
  BY <1>2
<1>4. Telling!Swap(w) = <<w[4], w[3], w[2], w[1]>>
  BY DEF Telling!Swap
<1>5. Telling!Swap(Telling!Swap(w)) = <<w[1], w[2], w[3], w[4]>>
  BY <1>4 DEF Telling!Swap
<1> DEFINE v == <<w[1], w[2], w[3], w[4]>>
<1>6. v = w
  <2>1. v \in Seq(Nat) /\ Len(v) = 4 /\ v[1] = w[1] /\ v[2] = w[2] /\ v[3] = w[3] /\ v[4] = w[4]
    BY <1>3
  <2> HIDE DEF v
  <2>2. \A k \in 1 .. Len(v) : v[k] = w[k]
    BY <2>1
  <2>3. v \in Seq(Nat) /\ w \in Seq(Nat) /\ Len(v) = Len(w)
    BY <1>1, <2>1
  <2> QED BY <2>2, <2>3, SeqEqual, Zenon
<1>7. Telling!Swap(w) \in U32Bytes
  BY <1>3, <1>4, TupleBytes
<1>8. /\ <<w[4], w[3], w[2], w[1]>>[1] = w[4] /\ <<w[4], w[3], w[2], w[1]>>[2] = w[3]
      /\ <<w[4], w[3], w[2], w[1]>>[3] = w[2] /\ <<w[4], w[3], w[2], w[1]>>[4] = w[1]
  OBVIOUS
<1> QED BY <1>1, <1>4, <1>5, <1>6, <1>7, <1>8, Zenon

LEMMA WordType == ASSUME NEW n \in Nat PROVE Telling!Word(n) \in U32Bytes
<1>1. n % 256 \in Nat /\ n \div 256 \in Nat
  OBVIOUS
<1> QED BY <1>1, TupleBytes DEF Telling!Word

\* \o, as an operator whose definition need not be expanded.
Join(s, t) == s \o t

\* q has the m elements of s and then the n elements of t.
Follows(q, s, t, m, n) ==
    /\ \A k \in 1 .. m : q[k] = s[k]
    /\ \A k \in 1 .. n : q[m + k] = t[k]

LEMMA Joined ==
    ASSUME NEW s \in Seq(Nat), NEW t \in Seq(Nat)
    PROVE  /\ Join(s, t) \in Seq(Nat) /\ Len(Join(s, t)) = Len(s) + Len(t)
           /\ Follows(Join(s, t), s, t, Len(s), Len(t))
<1>1. /\ Join(s, t) \in Seq(Nat)
      /\ Len(Join(s, t)) = Len(s) + Len(t)
      /\ \A i \in 1 .. Len(s) + Len(t) :
            Join(s, t)[i] = IF i <= Len(s) THEN s[i] ELSE t[i - Len(s)]
  BY ConcatProperties DEF Join
<1>2. ASSUME NEW k \in 1 .. Len(t) PROVE Join(s, t)[Len(s) + k] = t[k]
  <2>1. /\ Len(s) + k \in 1 .. Len(s) + Len(t)
        /\ ~(Len(s) + k <= Len(s)) /\ (Len(s) + k) - Len(s) = k
    BY LenProperties
  <2> QED BY <1>1, <2>1
<1>3. ASSUME NEW k \in 1 .. Len(s) PROVE Join(s, t)[k] = s[k]
  <2>1. k \in 1 .. Len(s) + Len(t) /\ k <= Len(s)
    BY LenProperties
  <2> QED BY <1>1, <2>1
<1>4. Follows(Join(s, t), s, t, Len(s), Len(t))
  BY <1>2, <1>3 DEF Follows
<1> QED BY <1>1, <1>4

\* Where the bytes of a packet are.
LaidOut(q, a, s, b, c, t, e, p) ==
    /\ q \in Seq(Nat) /\ Len(q) = 12 + Len(p)
    /\ q[1] = a
    /\ \A k \in 1 .. 4 : q[1 + k] = s[k]
    /\ q[6] = b /\ q[7] = c
    /\ \A k \in 1 .. 4 : q[7 + k] = t[k]
    /\ q[12] = e
    /\ \A k \in 1 .. Len(p) : q[12 + k] = p[k]

LEMMA PacketBytes ==
    ASSUME NEW a \in Nat, NEW s \in U32Bytes, NEW b \in Nat, NEW c \in Nat, NEW t \in U32Bytes,
           NEW e \in Nat, NEW p \in Seq(Nat)
    PROVE  LaidOut(Join(Join(Join(Join(Join(<<a>>, s), <<b, c>>), t), <<e>>), p),
                   a, s, b, c, t, e, p)
<1> DEFINE packet == Join(Join(Join(Join(Join(<<a>>, s), <<b, c>>), t), <<e>>), p)
<1>0. PICK q : q = packet
  OBVIOUS
<1>1. /\ <<a>> \in Seq(Nat) /\ <<b, c>> \in Seq(Nat) /\ <<e>> \in Seq(Nat)
      /\ s \in Seq(Nat) /\ t \in Seq(Nat)
  BY WordBytes
<1>2. /\ Len(<<a>>) = 1 /\ Len(<<b, c>>) = 2 /\ Len(<<e>>) = 1 /\ Len(s) = 4 /\ Len(t) = 4
      /\ Len(p) \in Nat
  BY WordBytes, LenProperties
<1>3. PICK q1 : q1 = Join(<<a>>, s)
  OBVIOUS
<1>4. PICK q2 : q2 = Join(q1, <<b, c>>)
  OBVIOUS
<1>5. PICK q3 : q3 = Join(q2, t)
  OBVIOUS
<1>6. PICK q4 : q4 = Join(q3, <<e>>)
  OBVIOUS
<1>7. q = Join(q4, p)
  BY <1>0, <1>3, <1>4, <1>5, <1>6
<1>8. q1 \in Seq(Nat) /\ Len(q1) = 5 /\ Follows(q1, <<a>>, s, 1, 4)
  <2>1. <<a>> \in Seq(Nat) /\ s \in Seq(Nat) /\ Len(<<a>>) = 1 /\ Len(s) = 4
    BY <1>1, <1>2
  <2>2. /\ q1 \in Seq(Nat) /\ Len(q1) = Len(<<a>>) + Len(s)
        /\ Follows(q1, <<a>>, s, Len(<<a>>), Len(s))
    BY <2>1, <1>3, Joined, Zenon
  <2>3. Follows(q1, <<a>>, s, 1, 4)
    BY <2>1, <2>2, Zenon
  <2>4. Len(q1) = 5
    BY <2>1, <2>2
  <2> QED BY <2>2, <2>3, <2>4
<1>9. q2 \in Seq(Nat) /\ Len(q2) = 7 /\ Follows(q2, q1, <<b, c>>, 5, 2)
  <2>1. q1 \in Seq(Nat) /\ <<b, c>> \in Seq(Nat) /\ Len(q1) = 5 /\ Len(<<b, c>>) = 2
    BY <1>1, <1>2, <1>8
  <2>2. /\ q2 \in Seq(Nat) /\ Len(q2) = Len(q1) + Len(<<b, c>>)
        /\ Follows(q2, q1, <<b, c>>, Len(q1), Len(<<b, c>>))
    BY <2>1, <1>4, Joined, Zenon
  <2>3. Follows(q2, q1, <<b, c>>, 5, 2)
    BY <2>1, <2>2, Zenon
  <2>4. Len(q2) = 7
    BY <2>1, <2>2
  <2> QED BY <2>2, <2>3, <2>4
<1>10. q3 \in Seq(Nat) /\ Len(q3) = 11 /\ Follows(q3, q2, t, 7, 4)
  <2>1. q2 \in Seq(Nat) /\ t \in Seq(Nat) /\ Len(q2) = 7 /\ Len(t) = 4
    BY <1>1, <1>2, <1>9
  <2>2. /\ q3 \in Seq(Nat) /\ Len(q3) = Len(q2) + Len(t)
        /\ Follows(q3, q2, t, Len(q2), Len(t))
    BY <2>1, <1>5, Joined, Zenon
  <2>3. Follows(q3, q2, t, 7, 4)
    BY <2>1, <2>2, Zenon
  <2>4. Len(q3) = 11
    BY <2>1, <2>2
  <2> QED BY <2>2, <2>3, <2>4
<1>11. q4 \in Seq(Nat) /\ Len(q4) = 12 /\ Follows(q4, q3, <<e>>, 11, 1)
  <2>1. q3 \in Seq(Nat) /\ <<e>> \in Seq(Nat) /\ Len(q3) = 11 /\ Len(<<e>>) = 1
    BY <1>1, <1>2, <1>10
  <2>2. /\ q4 \in Seq(Nat) /\ Len(q4) = Len(q3) + Len(<<e>>)
        /\ Follows(q4, q3, <<e>>, Len(q3), Len(<<e>>))
    BY <2>1, <1>6, Joined, Zenon
  <2>3. Follows(q4, q3, <<e>>, 11, 1)
    BY <2>1, <2>2, Zenon
  <2>4. Len(q4) = 12
    BY <2>1, <2>2
  <2> QED BY <2>2, <2>3, <2>4
<1>12. q \in Seq(Nat) /\ Len(q) = 12 + Len(p) /\ Follows(q, q4, p, 12, Len(p))
  BY <1>2, <1>7, <1>11, Joined
<1>13. /\ Follows(q1, <<a>>, s, 1, 4) /\ Follows(q2, q1, <<b, c>>, 5, 2)
       /\ Follows(q3, q2, t, 7, 4) /\ Follows(q4, q3, <<e>>, 11, 1)
       /\ Follows(q, q4, p, 12, Len(p))
  BY <1>8, <1>9, <1>10, <1>11, <1>12
<1>14. /\ \A k \in 1 .. 12 : q[k] = q4[k]
       /\ \A k \in 1 .. 11 : q4[k] = q3[k]
       /\ \A k \in 1 .. 7 : q3[k] = q2[k]
       /\ \A k \in 1 .. 5 : q2[k] = q1[k]
  BY <1>13 DEF Follows
<1>15. q1[1] = a /\ q2[6] = b /\ q2[7] = c /\ q4[12] = e
  <2>1. q2[5 + 1] = b /\ q2[5 + 2] = c
    BY <1>13 DEF Follows
  <2>2. q4[11 + 1] = e
    BY <1>13 DEF Follows
  <2>3. q1[1] = a
    BY <1>13 DEF Follows
  <2> QED BY <2>1, <2>2, <2>3
<1>16. q[1] = a /\ q[6] = b /\ q[7] = c /\ q[12] = e
  BY <1>14, <1>15
<1>17. \A k \in 1 .. 4 : q1[1 + k] = s[k] /\ q3[7 + k] = t[k]
  BY <1>13 DEF Follows
<1>18. \A k \in 1 .. 4 : q[1 + k] = s[k] /\ q[7 + k] = t[k]
  <2> TAKE k \in 1 .. 4
  <2>1. /\ 1 + k \in 1 .. 12 /\ 1 + k \in 1 .. 11 /\ 1 + k \in 1 .. 7 /\ 1 + k \in 1 .. 5
        /\ 7 + k \in 1 .. 12 /\ 7 + k \in 1 .. 11
    OBVIOUS
  <2> QED BY <1>14, <1>17, <2>1
<1>19. \A k \in 1 .. Len(p) : q[12 + k] = p[k]
  BY <1>13 DEF Follows
<1>20. LaidOut(q, a, s, b, c, t, e, p)
  BY <1>12, <1>16, <1>18, <1>19 DEF LaidOut
<1> QED BY <1>0, <1>20, Zenon

\* The piece of q at m is t.
LEMMA Sliced ==
    ASSUME NEW q \in Seq(Nat), NEW t \in Seq(Nat), NEW m \in Nat, m + Len(t) <= Len(q),
           \A k \in 1 .. Len(t) : q[m + k] = t[k]
    PROVE  SubSeq(q, m + 1, m + Len(t)) = t
<1>1. Len(t) \in Nat /\ Len(q) \in Nat
  BY LenProperties
<1>2. \A i \in m + 1 .. m + Len(t) : q[i] \in Nat
  <2> TAKE i \in m + 1 .. m + Len(t)
  <2>1. i \in 1 .. Len(q)
    BY <1>1
  <2> QED BY <2>1, ElementOfSeq
<1>3. m + 1 \in Int /\ m + Len(t) \in Int
  BY <1>1
<1>4. PICK v : v = SubSeq(q, m + 1, m + Len(t))
  OBVIOUS
<1>5. /\ v \in Seq(Nat)
      /\ Len(v) = IF m + 1 <= m + Len(t) THEN (m + Len(t)) - (m + 1) + 1 ELSE 0
      /\ \A i \in 1 .. (m + Len(t)) - (m + 1) + 1 : v[i] = q[(m + 1) + i - 1]
  <2>1. LET u == SubSeq(q, m + 1, m + Len(t))
        IN  /\ u \in Seq(Nat)
            /\ Len(u) = IF m + 1 <= m + Len(t) THEN (m + Len(t)) - (m + 1) + 1 ELSE 0
            /\ \A i \in 1 .. (m + Len(t)) - (m + 1) + 1 : u[i] = q[(m + 1) + i - 1]
    BY <1>2, <1>3, SubSeqProperties
  <2> QED BY <1>4, <2>1
<1>6. Len(v) = Len(t)
  BY <1>1, <1>5
<1>7. ASSUME NEW i \in 1 .. Len(v) PROVE v[i] = t[i]
  <2>1. i \in 1 .. (m + Len(t)) - (m + 1) + 1 /\ (m + 1) + i - 1 = m + i /\ i \in 1 .. Len(t)
    BY <1>1, <1>6
  <2>2. v[i] = q[m + i]
    BY <1>5, <2>1
  <2> QED BY <2>1, <2>2
<1>8. v = t
  BY <1>5, <1>6, <1>7, SeqEqual, Zenon
<1> QED BY <1>4, <1>8

LEMMA SlicedWord ==
    ASSUME NEW q \in Seq(Nat), NEW w \in U32Bytes, NEW m \in Nat, m + 4 <= Len(q),
           \A k \in 1 .. 4 : q[m + k] = w[k]
    PROVE  SubSeq(q, m + 1, m + 4) = w
<1>1. w \in Seq(Nat) /\ Len(w) = 4
  BY DEF U32Bytes
<1>2. SubSeq(q, m + 1, m + Len(w)) = w
  BY <1>1, Sliced
<1> QED BY <1>1, <1>2

\* The packet of a message, in that form.
LEMMA PacketLaidOut ==
    ASSUME NEW msg \in MsgData, NEW q, q = Telling!encodePacket(msg)
    PROVE  q = Join(Join(Join(Join(Join(<<msg.header.signature>>,
                                        Telling!Swap(Telling!Word(12 + Len(msg.payLoad)))),
                                   <<msg.header.msgId, msg.header.clntId>>),
                              Telling!Swap(msg.header.token)),
                         <<msg.header.isLast>>),
                    msg.payLoad)
<1>1. PICK h : h = Telling!HeaderSwapped(Telling!Sized(msg))
  OBVIOUS
<1>2. /\ h.signature = msg.header.signature
      /\ h.totalSize = Telling!Swap(Telling!Word(12 + Len(msg.payLoad)))
      /\ h.msgId = msg.header.msgId /\ h.clntId = msg.header.clntId
      /\ h.token = Telling!Swap(msg.header.token)
      /\ h.isLast = msg.header.isLast
  BY <1>1 DEF Telling!HeaderSwapped, Telling!Sized, MsgData, HeaderData, Telling!HEADER_SIZE
<1>3. q = Join(Join(Join(Join(Join(<<h.signature>>, h.totalSize), <<h.msgId, h.clntId>>),
                              h.token), <<h.isLast>>), msg.payLoad)
  BY <1>1, Zenon DEF Telling!encodePacket, Telling!encodeHeader, Join
<1> QED BY <1>2, <1>3, Zenon

\* What a client decodes is the message, but for the token, whose bytes are swapped back from
\* what the header had in memory, and not from what was queued (packet.c:78-133).
Carries(q, d, msg) ==
    /\ q \in Seq(Nat) /\ Telling!SizeOf(q) = Telling!Word(Len(q))
    /\ Telling!SignatureOf(q) = msg.header.signature
    /\ d.payLoad = msg.payLoad
    /\ d.header.msgId = msg.header.msgId
    /\ d.header.clntId = msg.header.clntId
    /\ d.header.isLast = msg.header.isLast
    /\ d.header.token = msg.header.token

LEMMA PacketRight ==
    ASSUME NEW msg \in MsgData
    PROVE  LET q == Telling!encodePacket(msg) IN Carries(q, Telling!Decoded(q), msg)
<1> DEFINE packet == Telling!encodePacket(msg)
<1>a. PICK q : q = packet
  OBVIOUS
<1>b. PICK d : d = Telling!Decoded(packet)
  OBVIOUS
<1>1. PICK a \in Nat : a = msg.header.signature
  BY DEF MsgData, HeaderData
<1>2. PICK b \in Nat : b = msg.header.msgId
  BY DEF MsgData, HeaderData
<1>3. PICK c \in Nat : c = msg.header.clntId
  BY TransfersAssumption DEF MsgData, HeaderData, Telling!ClientId
<1>4. PICK e \in Nat : e = msg.header.isLast
  BY DEF MsgData, HeaderData
<1>5. PICK p \in Seq(Nat) : p = msg.payLoad
  BY DEF MsgData
<1>6. msg.header.token \in U32Bytes
  BY DEF MsgData, HeaderData
<1>7. PICK t \in U32Bytes : t = Telling!Swap(msg.header.token)
  BY <1>6, WordBytes
<1>8. Len(p) \in Nat /\ Telling!Word(12 + Len(p)) \in U32Bytes
  <2>1. Len(p) \in Nat /\ 12 + Len(p) \in Nat
    BY LenProperties
  <2> QED BY <2>1, WordType
<1>9. PICK s \in U32Bytes : s = Telling!Swap(Telling!Word(12 + Len(p)))
  BY <1>8, WordBytes
<1>10. Telling!Swap(s) = Telling!Word(12 + Len(p)) /\ Telling!Swap(t) = msg.header.token
  BY <1>6, <1>7, <1>8, <1>9, WordBytes
<1>11. q = Join(Join(Join(Join(Join(<<a>>, s), <<b, c>>), t), <<e>>), p)
  BY <1>a, <1>1, <1>2, <1>3, <1>4, <1>5, <1>7, <1>9, PacketLaidOut, Zenon
<1>12. /\ q \in Seq(Nat) /\ Len(q) = 12 + Len(p)
       /\ q[1] = a
       /\ \A k \in 1 .. 4 : q[1 + k] = s[k]
       /\ q[6] = b /\ q[7] = c
       /\ \A k \in 1 .. 4 : q[7 + k] = t[k]
       /\ q[12] = e
       /\ \A k \in 1 .. Len(p) : q[12 + k] = p[k]
  <2>1. LaidOut(Join(Join(Join(Join(Join(<<a>>, s), <<b, c>>), t), <<e>>), p),
                a, s, b, c, t, e, p)
    BY PacketBytes, Zenon
  <2> QED BY <1>11, <2>1, Zenon DEF LaidOut
<1>13. SubSeq(q, 2, 5) = s
  <2>1. 1 \in Nat /\ 1 + 4 <= Len(q) /\ 1 + 1 = 2 /\ 1 + 4 = 5
    BY <1>8, <1>12
  <2>2. SubSeq(q, 1 + 1, 1 + 4) = s
    BY <1>12, <2>1, SlicedWord, Zenon
  <2> QED BY <2>1, <2>2, Zenon
<1>14. Telling!SizeOf(q) = Telling!Word(Len(q)) /\ Telling!SignatureOf(q) = a
  BY <1>10, <1>12, <1>13, Zenon DEF Telling!SizeOf, Telling!SignatureOf
<1>15. PICK buf : buf = SubSeq(q, 6, Len(q))
  OBVIOUS
<1>16. /\ buf \in Seq(Nat) /\ Len(buf) = 7 + Len(p)
       /\ \A k \in 1 .. 7 + Len(p) : buf[k] = q[5 + k]
  <2>1. \A i \in 6 .. Len(q) : q[i] \in Nat
    <3> TAKE i \in 6 .. Len(q)
    <3>1. i \in 1 .. Len(q)
      BY <1>8, <1>12
    <3> QED BY <1>12, <3>1, ElementOfSeq
  <2>2. 6 \in Int /\ Len(q) \in Int
    BY <1>8, <1>12
  <2>3. /\ buf \in Seq(Nat)
        /\ Len(buf) = IF 6 <= Len(q) THEN Len(q) - 6 + 1 ELSE 0
        /\ \A i \in 1 .. Len(q) - 6 + 1 : buf[i] = q[6 + i - 1]
    <3>1. LET u == SubSeq(q, 6, Len(q))
          IN  /\ u \in Seq(Nat)
              /\ Len(u) = IF 6 <= Len(q) THEN Len(q) - 6 + 1 ELSE 0
              /\ \A i \in 1 .. Len(q) - 6 + 1 : u[i] = q[6 + i - 1]
      BY <2>1, <2>2, SubSeqProperties
    <3> QED BY <1>15, <3>1
  <2>4. Len(q) = 12 + Len(p) /\ Len(p) \in Nat
    BY <1>8, <1>12
  <2>5. Len(buf) = 7 + Len(p)
    BY <2>3, <2>4
  <2>6. ASSUME NEW k \in 1 .. 7 + Len(p) PROVE buf[k] = q[5 + k]
    <3>1. k \in 1 .. Len(q) - 6 + 1 /\ 6 + k - 1 = 5 + k
      BY <2>4
    <3> QED BY <2>3, <3>1
  <2> QED BY <2>3, <2>5, <2>6
<1>17. buf[1] = b /\ buf[2] = c /\ buf[7] = e
  <2>1. /\ 1 \in 1 .. 7 + Len(p) /\ 2 \in 1 .. 7 + Len(p) /\ 7 \in 1 .. 7 + Len(p)
        /\ 5 + 1 = 6 /\ 5 + 2 = 7 /\ 5 + 7 = 12
    BY <1>8
  <2>2. buf[1] = q[5 + 1] /\ buf[2] = q[5 + 2] /\ buf[7] = q[5 + 7]
    BY <1>16, <2>1
  <2> QED BY <1>12, <2>1, <2>2
<1>18. SubSeq(buf, 3, 6) = t
  <2>1. ASSUME NEW k \in 1 .. 4 PROVE buf[2 + k] = t[k]
    <3>1. 2 + k \in 1 .. 7 + Len(p) /\ 5 + (2 + k) = 7 + k
      BY <1>8
    <3>2. buf[2 + k] = q[5 + (2 + k)]
      BY <1>16, <3>1
    <3> QED BY <1>12, <3>1, <3>2
  <2>2. 2 \in Nat /\ 2 + 4 <= Len(buf) /\ 2 + 1 = 3 /\ 2 + 4 = 6
    BY <1>8, <1>16
  <2>3. SubSeq(buf, 2 + 1, 2 + 4) = t
    BY <1>16, <2>1, <2>2, SlicedWord, Zenon
  <2> QED BY <2>2, <2>3, Zenon
<1>19. SubSeq(buf, 8, Len(buf)) = p
  <2>1. ASSUME NEW k \in 1 .. Len(p) PROVE buf[7 + k] = p[k]
    <3>1. 7 + k \in 1 .. 7 + Len(p) /\ 5 + (7 + k) = 12 + k
      BY <1>8
    <3>2. buf[7 + k] = q[5 + (7 + k)]
      BY <1>16, <3>1
    <3> QED BY <1>12, <3>1, <3>2
  <2>2. 7 \in Nat /\ 7 + Len(p) <= Len(buf) /\ 7 + 1 = 8 /\ 7 + Len(p) = Len(buf)
    BY <1>8, <1>16
  <2>3. SubSeq(buf, 7 + 1, 7 + Len(p)) = p
    BY <1>16, <2>1, <2>2, Sliced, Zenon
  <2> QED BY <2>2, <2>3, Zenon
<1>20. 7 + 1 = 8
  OBVIOUS
<1>21. d = [header |-> [msgId |-> b, clntId |-> c, token |-> Telling!Swap(t), isLast |-> e],
            payLoad |-> p]
  BY <1>a, <1>b, <1>15, <1>17, <1>18, <1>19, <1>20, Zenon
     DEF Telling!Decoded, Telling!decodePacket, Telling!decodeHeader, Telling!DECODED_HEADER_SIZE
<1>22. /\ d.payLoad = p
       /\ d.header.msgId = b /\ d.header.clntId = c /\ d.header.isLast = e
       /\ d.header.token = Telling!Swap(t)
  BY <1>21
<1>23. Carries(q, d, msg)
  BY <1>1, <1>2, <1>3, <1>4, <1>5, <1>10, <1>12, <1>14, <1>22, Zenon DEF Carries
<1> QED BY <1>a, <1>b, <1>23, Zenon

\* Encoding swaps the token and leaves the rest of what a client can see alone.
LEMMA EncodedIs ==
    ASSUME NEW msg \in MsgData, NEW new, new = Telling!Encoded(msg)
    PROVE  /\ new \in MsgData /\ new.payLoad = msg.payLoad
           /\ new.header.signature = msg.header.signature
           /\ new.header.msgId = msg.header.msgId /\ new.header.clntId = msg.header.clntId
           /\ new.header.isLast = msg.header.isLast
           /\ new.header.token = Telling!Swap(msg.header.token)
<1>1. msg.header \in HeaderData /\ msg.payLoad \in Seq(Nat) /\ msg.header.token \in U32Bytes
  BY DEF MsgData, HeaderData
<1>2. Telling!Swap(msg.header.token) \in U32Bytes
  BY <1>1, WordBytes
<1>3. PICK size \in U32Bytes : size = Telling!Swap(Telling!Word(12 + Len(msg.payLoad)))
  <2>1. 12 + Len(msg.payLoad) \in Nat
    BY <1>1, LenProperties
  <2>2. Telling!Word(12 + Len(msg.payLoad)) \in U32Bytes
    BY <2>1, WordType
  <2> QED BY <2>2, WordBytes
<1>4. new = [msg EXCEPT !.header =
                [msg.header EXCEPT !.totalSize = size, !.token = Telling!Swap(msg.header.token)]]
  BY <1>1, <1>3
     DEF Telling!Encoded, Telling!HeaderSwapped, Telling!Sized, Telling!HEADER_SIZE, HeaderData
<1> QED BY <1>1, <1>2, <1>3, <1>4 DEF MsgData, HeaderData

-----------------------------------------------------------------------------
(* The updates.                                                             *)

SentPacket == [to : Telling!ClientId, nth : Nat, packet : Seq(Nat)]

UpdateRecord ==
    [msg : MsgData, i : 0 .. MaxClient, nth : Nat, sent : Seq(SentPacket), what : Nat,
     from : Telling!ClientId, token : U32Bytes, audience : SUBSET Telling!ClientId]

\* What msg.header.token is when the message has been encoded n times.
TokenAfter(token, n) == IF n % 2 = 0 THEN token ELSE Telling!Swap(token)

\* What a client decodes from the packet s of update u is u.
Arrives(u, s) ==
    LET d == Telling!Decoded(s.packet)
    IN  /\ Telling!SizeOf(s.packet) = Telling!Word(Len(s.packet))
        /\ Telling!SignatureOf(s.packet) = u.msg.header.signature
        /\ d.payLoad = u.msg.payLoad
        /\ d.header.msgId = u.msg.header.msgId
        /\ d.header.clntId = u.msg.header.clntId
        /\ d.header.isLast = u.msg.header.isLast
        /\ d.header.token = TokenAfter(u.token, s.nth)

\* Who is not told.
About(u) ==
    IF u.what = Telling!client_currentPlaying_m THEN {} ELSE {u.msg.header.clntId}

ToldOnce(sent, c) ==
    \E n \in DOMAIN sent : \A m \in DOMAIN sent : sent[m].to = c <=> m = n

\* The loop has been at the slots below i; R is registered.
Good(u, R) ==
    /\ u.audience \subseteq R
    /\ u.what = Telling!client_currentPlaying_m
          <=> u.msg.header.msgId = Telling!client_currentPlaying_m
    /\ u.msg.header.token = TokenAfter(u.token, u.nth)
    /\ \A n \in DOMAIN u.sent : u.sent[n].to < u.i /\ Arrives(u, u.sent[n])
    /\ \A c \in u.audience \ About(u) : c < u.i => ToldOnce(u.sent, c)

AllGood(us, R) ==
    us \in Seq(UpdateRecord) /\ \A k \in 1 .. Len(us) : Good(us[k], R)

UpdatesInv == registered \subseteq Telling!ClientId /\ AllGood(update, registered)

\* Of a token that is swapped with every encoding.
LEMMA TokenSwapped ==
    ASSUME NEW token \in U32Bytes, NEW n \in Nat
    PROVE  Telling!Swap(TokenAfter(token, n)) = TokenAfter(token, n + 1)
<1>1. (n + 1) % 2 = 0 <=> n % 2 # 0
  OBVIOUS
<1> QED BY <1>1, WordBytes, Zenon DEF TokenAfter

\* Nobody has to be told more, if others have come or the audience has shrunk.
LEMMA GoodAnyway ==
    ASSUME NEW u \in UpdateRecord, NEW R, Good(u, R),
           NEW v, v.msg = u.msg, v.i = u.i, v.nth = u.nth, v.sent = u.sent, v.what = u.what,
           v.token = u.token, NEW S, v.audience \subseteq S, v.audience \subseteq u.audience
    PROVE  Good(v, S)
  BY DEF Good, Arrives, About

\* The loop is done with a slot without a packet.
LEMMA GoodWithoutPacket ==
    ASSUME NEW u \in UpdateRecord, NEW R, Good(u, R),
           NEW v, v.i = u.i + 1, v.sent = u.sent, v.what = u.what, v.token = u.token,
           v.msg.payLoad = u.msg.payLoad,
           v.msg.header.signature = u.msg.header.signature,
           v.msg.header.msgId = u.msg.header.msgId, v.msg.header.clntId = u.msg.header.clntId,
           v.msg.header.isLast = u.msg.header.isLast,
           v.msg.header.token = TokenAfter(v.token, v.nth),
           NEW S, v.audience \subseteq S, v.audience \subseteq u.audience,
           u.i \notin v.audience \ About(u)
    PROVE  Good(v, S)
<1>1. /\ u.i \in Nat /\ u.audience \subseteq Nat
      /\ \A n \in DOMAIN u.sent : u.sent[n].to \in Nat
  <2>1. u.i \in Nat /\ u.audience \subseteq Nat
    BY TransfersAssumption DEF UpdateRecord, Telling!ClientId
  <2>2. u.sent \in Seq(SentPacket)
    BY DEF UpdateRecord
  <2>3. \A n \in DOMAIN u.sent : u.sent[n] \in SentPacket
    BY <2>2, LenProperties, ElementOfSeq
  <2>4. \A n \in DOMAIN u.sent : u.sent[n].to \in Nat
    BY <2>3, TransfersAssumption DEF SentPacket, Telling!ClientId
  <2> QED BY <2>1, <2>4
<1>2. About(v) = About(u)
  BY DEF About
<1>3. \A n \in DOMAIN v.sent : v.sent[n].to < v.i
  BY <1>1 DEF Good
<1>4. \A n \in DOMAIN v.sent : Arrives(v, v.sent[n])
  BY Zenon DEF Good, Arrives
<1>5. ASSUME NEW c \in v.audience \ About(v), c < v.i PROVE ToldOnce(v.sent, c)
  <2>1. c \in u.audience \ About(u) /\ c # u.i /\ c < u.i
    BY <1>1, <1>2, <1>5
  <2> QED BY <2>1 DEF Good
<1> QED BY <1>3, <1>4, <1>5 DEF Good

\* The loop has sent a packet.
LEMMA GoodWithPacket ==
    ASSUME NEW u \in UpdateRecord, NEW R, Good(u, R),
           NEW s, s = [to |-> u.i, nth |-> u.nth, packet |-> Telling!encodePacket(u.msg)],
           NEW v, v = [u EXCEPT !.i = u.i + 1, !.msg = Telling!Encoded(u.msg), !.nth = u.nth + 1,
                                !.sent = Append(u.sent, s)],
           u.i < MaxClient
    PROVE  v \in UpdateRecord /\ Good(v, R)
<1>1. /\ u.msg \in MsgData /\ u.i \in Nat /\ u.nth \in Nat /\ u.sent \in Seq(SentPacket)
      /\ u.token \in U32Bytes /\ u.audience \subseteq Telling!ClientId /\ u.i \in Telling!ClientId
  BY TransfersAssumption DEF UpdateRecord, Telling!ClientId
<1>2. PICK q : q = Telling!encodePacket(u.msg)
  OBVIOUS
<1>3. PICK d : d = Telling!Decoded(q)
  OBVIOUS
<1>4. Carries(q, d, u.msg)
  BY <1>1, <1>2, <1>3, PacketRight, Zenon
<1>5. s.to = u.i /\ s.nth = u.nth /\ s.packet = q /\ s \in SentPacket
  BY <1>1, <1>2, <1>4 DEF SentPacket, Carries
<1>6. PICK new : new = Telling!Encoded(u.msg)
  OBVIOUS
<1>7. /\ new \in MsgData /\ new.payLoad = u.msg.payLoad
      /\ new.header.signature = u.msg.header.signature
      /\ new.header.msgId = u.msg.header.msgId /\ new.header.clntId = u.msg.header.clntId
      /\ new.header.isLast = u.msg.header.isLast
      /\ new.header.token = TokenAfter(u.token, u.nth + 1)
  <2>1. new.header.token = Telling!Swap(u.msg.header.token)
    BY <1>1, <1>6, EncodedIs, Zenon
  <2>2. u.msg.header.token = TokenAfter(u.token, u.nth)
    BY DEF Good
  <2>3. new.header.token = TokenAfter(u.token, u.nth + 1)
    BY <1>1, <2>1, <2>2, TokenSwapped, Zenon
  <2> QED BY <1>1, <1>6, <2>3, EncodedIs, Zenon
<1>8. PICK t : t = Append(u.sent, s)
  OBVIOUS
<1>9. /\ t \in Seq(SentPacket) /\ DOMAIN t = 1 .. Len(u.sent) + 1
      /\ DOMAIN u.sent = 1 .. Len(u.sent) /\ Len(u.sent) \in Nat
      /\ \A n \in 1 .. Len(u.sent) : t[n] = u.sent[n]
      /\ t[Len(u.sent) + 1] = s
  BY <1>1, <1>5, <1>8, AppendProperties, LenProperties
<1>10. /\ v.i = u.i + 1 /\ v.msg = new /\ v.nth = u.nth + 1 /\ v.sent = t /\ v.what = u.what
       /\ v.token = u.token /\ v.audience = u.audience /\ v \in UpdateRecord
  <2>1. v = [u EXCEPT !.i = u.i + 1, !.msg = new, !.nth = u.nth + 1, !.sent = t]
    BY <1>6, <1>8, Zenon
  <2>2. u.i + 1 \in 0 .. MaxClient /\ u.nth + 1 \in Nat
    BY <1>1, TransfersAssumption
  <2>3. t \in Seq(SentPacket) /\ new \in MsgData
    BY <1>7, <1>9
  <2> QED BY <2>1, <2>2, <2>3 DEF UpdateRecord
<1>11. Arrives(v, s)
  <2>1. /\ Telling!SizeOf(s.packet) = Telling!Word(Len(s.packet))
        /\ Telling!SignatureOf(s.packet) = v.msg.header.signature
    BY <1>4, <1>5, <1>7, <1>10, Zenon DEF Carries
  <2>2. /\ d = Telling!Decoded(s.packet)
        /\ d.payLoad = v.msg.payLoad
        /\ d.header.msgId = v.msg.header.msgId
        /\ d.header.clntId = v.msg.header.clntId
        /\ d.header.isLast = v.msg.header.isLast
    BY <1>3, <1>4, <1>5, <1>7, <1>10, Zenon DEF Carries
  <2>3. d.header.token = TokenAfter(v.token, s.nth)
    BY <1>4, <1>5, <1>10, Zenon DEF Good, Carries
  <2> QED BY <2>1, <2>2, <2>3, Zenon DEF Arrives
<1>12. \A n \in DOMAIN u.sent : Arrives(v, u.sent[n])
  BY <1>7, <1>10, Zenon DEF Good, Arrives
<1>13. \A n \in DOMAIN v.sent : Arrives(v, v.sent[n])
  <2> TAKE n \in DOMAIN v.sent
  <2>1. n \in 1 .. Len(u.sent) \/ n = Len(u.sent) + 1
    BY <1>9, <1>10
  <2>2. CASE n \in 1 .. Len(u.sent)
    <3>1. v.sent[n] = u.sent[n] /\ n \in DOMAIN u.sent
      BY <1>9, <1>10, <2>2
    <3> QED BY <1>12, <3>1, Zenon
  <2>3. CASE n = Len(u.sent) + 1
    <3>1. v.sent[n] = s
      BY <1>9, <1>10, <2>3
    <3> QED BY <1>11, <3>1, Zenon
  <2> QED BY <2>1, <2>2, <2>3
<1>a. PICK top \in Nat : top = Len(u.sent)
  BY <1>9
<1>b. /\ DOMAIN t = 1 .. top + 1 /\ DOMAIN u.sent = 1 .. top /\ top \in Nat
      /\ \A n \in 1 .. top : t[n] = u.sent[n]
      /\ t[top + 1] = s
  BY <1>9, <1>a, Zenon
<1>14. \A n \in 1 .. top : u.sent[n].to \in Nat /\ u.sent[n].to < u.i
  <2>1. \A n \in 1 .. top : u.sent[n] \in SentPacket
    BY <1>1, <1>a, ElementOfSeq
  <2>2. \A n \in 1 .. top : u.sent[n].to \in Nat
    BY <2>1, TransfersAssumption DEF SentPacket, Telling!ClientId
  <2>3. \A n \in DOMAIN u.sent : u.sent[n].to < u.i
    BY DEF Good
  <2> QED BY <1>b, <2>2, <2>3
<1>15. \A n \in 1 .. top + 1 :
          t[n].to = IF n = top + 1 THEN u.i ELSE u.sent[n].to
  BY <1>5, <1>b
<1>16. \A n \in DOMAIN v.sent : v.sent[n].to < v.i
  <2>1. \A n \in 1 .. top + 1 : t[n].to < u.i + 1
    BY <1>1, <1>b, <1>14, <1>15
  <2> QED BY <1>b, <1>10, <2>1
<1>17. ASSUME NEW c \in v.audience \ About(v), c < v.i PROVE ToldOnce(v.sent, c)
  <2>1. c \in Nat /\ c \in u.audience \ About(u) /\ (c = u.i \/ c < u.i)
    <3>1. About(v) = About(u)
      BY <1>7, <1>10 DEF About
    <3>2. c \in Nat
      BY <1>1, <1>10, TransfersAssumption DEF Telling!ClientId
    <3> QED BY <1>1, <1>10, <1>17, <3>1, <3>2
  <2>2. CASE c = u.i
    <3>1. /\ top + 1 \in 1 .. top + 1
          /\ \A m \in 1 .. top + 1 : t[m].to = c <=> m = top + 1
      BY <1>1, <1>b, <1>14, <1>15, <2>2
    <3>2. \E n \in 1 .. top + 1 : \A m \in 1 .. top + 1 : t[m].to = c <=> m = n
      BY <3>1
    <3>5. DOMAIN t = 1 .. top + 1
      BY <1>b, Zenon
    <3>6. ToldOnce(t, c)
      BY <3>2, <3>5 DEF ToldOnce
    <3>7. v.sent = t
      BY <1>10, Zenon
    <3> QED BY <3>6, <3>7, Zenon
  <2>3. CASE c < u.i
    <3>1. ToldOnce(u.sent, c)
      BY <2>1, <2>3 DEF Good
    <3>2. PICK n \in 1 .. top : \A m \in 1 .. top : u.sent[m].to = c <=> m = n
      BY <1>b, <3>1 DEF ToldOnce
    <3>3. /\ n \in 1 .. top + 1
          /\ \A m \in 1 .. top + 1 : t[m].to = c <=> m = n
      <4>1. \A m \in 1 .. top + 1 : t[m].to = c <=> m = n
        <5> TAKE m \in 1 .. top + 1
        <5>1. m \in 1 .. top \/ m = top + 1
          BY <1>b
        <5>2. CASE m \in 1 .. top
          <6>1. t[m] = u.sent[m]
            BY <1>b, <5>2
          <6>2. t[m].to = c <=> m = n
            BY <3>2, <5>2, <6>1, Zenon
          <6> QED BY <6>2
        <5>3. CASE m = top + 1
          <6>1. t[m].to = u.i /\ c # u.i /\ m # n
            BY <1>1, <1>b, <1>5, <2>1, <2>3, <5>3
          <6> QED BY <6>1, Zenon
        <5> QED BY <5>1, <5>2, <5>3
      <4>2. n \in 1 .. top + 1
        BY <1>b
      <4> QED BY <4>1, <4>2
    <3>4. \E k \in 1 .. top + 1 : \A m \in 1 .. top + 1 : t[m].to = c <=> m = k
      BY <3>3, Zenon
    <3>5. DOMAIN t = 1 .. top + 1
      BY <1>b, Zenon
    <3>6. ToldOnce(t, c)
      BY <3>4, <3>5 DEF ToldOnce
    <3>7. v.sent = t
      BY <1>10, Zenon
    <3> QED BY <3>6, <3>7, Zenon
  <2> QED BY <2>1, <2>2, <2>3
<1>18. v.audience \subseteq R
  BY <1>10 DEF Good
<1>19. v.what = Telling!client_currentPlaying_m
          <=> v.msg.header.msgId = Telling!client_currentPlaying_m
  BY <1>7, <1>10 DEF Good
<1>20. v.msg.header.token = TokenAfter(v.token, v.nth)
  BY <1>7, <1>10
<1> QED BY <1>10, <1>13, <1>16, <1>17, <1>18, <1>19, <1>20 DEF Good

\* An update that was just queued.
QueuedFor(head, payLoad, what, from, token, audience) ==
    [msg |-> [header |-> head, payLoad |-> payLoad], i |-> 0, nth |-> 0, sent |-> <<>>,
     what |-> what, from |-> from, token |-> token, audience |-> audience]

LEMMA GoodWhenQueued ==
    ASSUME NEW head \in HeaderData, NEW payLoad \in Seq(Nat), NEW what \in Nat,
           NEW from \in Telling!ClientId,
           what = Telling!client_currentPlaying_m
              <=> head.msgId = Telling!client_currentPlaying_m,
           NEW A \in SUBSET Telling!ClientId, NEW u,
           u = QueuedFor(head, payLoad, what, from, head.token, A)
    PROVE  u \in UpdateRecord /\ Good(u, A)
<1> DEFINE token == head.token
<1>0. u = [msg |-> [header |-> head, payLoad |-> payLoad], i |-> 0, nth |-> 0, sent |-> <<>>,
           what |-> what, from |-> from, token |-> token, audience |-> A]
  BY Zenon DEF QueuedFor
<1>1. u \in UpdateRecord
  <2>1. <<>> \in Seq(SentPacket) /\ 0 \in 0 .. MaxClient /\ token \in U32Bytes
    BY EmptySeq, TransfersAssumption DEF HeaderData
  <2>2. [header |-> head, payLoad |-> payLoad] \in MsgData
    BY DEF MsgData
  <2> QED BY <1>0, <2>1, <2>2 DEF UpdateRecord
<1>2. /\ u.audience = A /\ u.what = what /\ u.msg.header = head /\ u.token = token
      /\ u.nth = 0 /\ u.i = 0 /\ DOMAIN u.sent = {}
  BY <1>0, EmptySeq
<1>3. u.msg.header.token = TokenAfter(u.token, u.nth)
  BY <1>2 DEF TokenAfter
<1>4. \A c \in u.audience \ About(u) : ~(c < u.i)
  <2>1. \A c \in A : c \in Nat
    BY TransfersAssumption DEF Telling!ClientId
  <2> QED BY <1>2, <2>1
<1> QED BY <1>1, <1>2, <1>3, <1>4 DEF Good

LEMMA AllGoodAppend ==
    ASSUME NEW us, NEW R, AllGood(us, R), NEW u \in UpdateRecord, Good(u, R)
    PROVE  AllGood(Append(us, u), R)
<1>1. us \in Seq(UpdateRecord) /\ Len(us) \in Nat
  BY LenProperties DEF AllGood
<1>2. PICK vs : vs = Append(us, u)
  OBVIOUS
<1>3. /\ vs \in Seq(UpdateRecord) /\ Len(vs) = Len(us) + 1
      /\ \A k \in 1 .. Len(us) : vs[k] = us[k]
      /\ vs[Len(us) + 1] = u
  BY <1>1, <1>2, AppendProperties
<1>4. ASSUME NEW k \in 1 .. Len(vs) PROVE Good(vs[k], R)
  <2>1. k \in 1 .. Len(us) \/ k = Len(us) + 1
    BY <1>1, <1>3
  <2>2. CASE k \in 1 .. Len(us)
    <3>1. vs[k] = us[k] /\ Good(us[k], R)
      BY <1>3, <2>2 DEF AllGood
    <3> QED BY <3>1, Zenon
  <2>3. CASE k = Len(us) + 1
    <3>1. vs[k] = u
      BY <1>3, <2>3
    <3> QED BY <3>1, Zenon
  <2> QED BY <2>1, <2>2, <2>3
<1>5. AllGood(vs, R)
  BY <1>3, <1>4, Zenon DEF AllGood
<1> QED BY <1>2, <1>5, Zenon

LEMMA AllGoodExcept ==
    ASSUME NEW us, NEW R, AllGood(us, R), NEW k \in DOMAIN us, NEW u \in UpdateRecord, Good(u, R)
    PROVE  AllGood([us EXCEPT ![k] = u], R)
<1>1. us \in Seq(UpdateRecord) /\ k \in 1 .. Len(us)
  BY LenProperties DEF AllGood
<1>2. PICK vs : vs = [us EXCEPT ![k] = u]
  OBVIOUS
<1>3. /\ vs \in Seq(UpdateRecord) /\ Len(vs) = Len(us)
      /\ \A j \in 1 .. Len(us) : vs[j] = IF j = k THEN u ELSE us[j]
  BY <1>1, <1>2, ExceptSeq
<1>4. \A j \in 1 .. Len(us) : Good(us[j], R)
  BY DEF AllGood
<1>5. \A j \in 1 .. Len(vs) : Good(vs[j], R)
  BY <1>3, <1>4, Zenon
<1>6. AllGood(vs, R)
  BY <1>3, <1>5, Zenon DEF AllGood
<1> QED BY <1>2, <1>6, Zenon

\* A client has gone: nobody need tell it any more.
LEMMA AllGoodForget ==
    ASSUME NEW us \in Seq(UpdateRecord), NEW c, NEW R,
           \A k \in 1 .. Len(us) :
              Good([us[k] EXCEPT !.audience = us[k].audience \ {c}], R)
    PROVE  AllGood(Telling!Forget(c, us), R)
<1>1. PICK vs : vs = [k \in DOMAIN us |-> [us[k] EXCEPT !.audience = us[k].audience \ {c}]]
  OBVIOUS
<1>2. vs = Telling!Forget(c, us)
  BY <1>1 DEF Telling!Forget
<1>3. Len(us) \in Nat /\ DOMAIN us = 1 .. Len(us)
  BY LenProperties
<1>4. \A k \in 1 .. Len(us) : vs[k] = [us[k] EXCEPT !.audience = us[k].audience \ {c}]
  BY <1>1, <1>3
<1>5. \A k \in 1 .. Len(us) : vs[k] \in UpdateRecord
  <2> TAKE k \in 1 .. Len(us)
  <2>1. us[k] \in UpdateRecord
    BY ElementOfSeq
  <2>2. [us[k] EXCEPT !.audience = us[k].audience \ {c}] \in UpdateRecord
    BY <2>1 DEF UpdateRecord
  <2> QED BY <1>4, <2>2, Zenon
<1>6. vs \in Seq(UpdateRecord) /\ Len(vs) = Len(us)
  <2>1. vs \in [1 .. Len(us) -> UpdateRecord]
    BY <1>1, <1>3, <1>5
  <2> QED BY <1>3, <2>1
<1>7. \A k \in 1 .. Len(vs) : Good(vs[k], R)
  BY <1>4, <1>6, Zenon
<1>8. AllGood(vs, R)
  BY <1>6, <1>7, Zenon DEF AllGood
<1> QED BY <1>2, <1>8, Zenon

LEMMA FunctionIsSeq == ASSUME NEW n \in Nat, NEW S, NEW t \in [1 .. n -> S]
                 PROVE  t \in Seq(S) /\ Len(t) = n
  OBVIOUS

LEMMA TokenBytes == ASSUME NEW token \in Token PROVE token \in U32Bytes
<1>1. token \in [1 .. 4 -> 0 .. 255]
  BY TransfersAssumption
<1>2. token \in [1 .. 4 -> Nat] /\ 4 \in Nat
  BY <1>1
<1>3. token \in Seq(Nat) /\ Len(token) = 4
  BY <1>2, FunctionIsSeq
<1> QED BY <1>3 DEF U32Bytes

-----------------------------------------------------------------------------
(* The steps.                                                               *)

LEMMA UpdatesInit == Telling!Init => UpdatesInv
<1>1. \A k \in 1 .. 0 : Good(<<>>[k], {})
  OBVIOUS
<1> QED BY EmptySeq, <1>1 DEF Telling!Init, UpdatesInv, AllGood

\* A message that has been queued, in terms of the one lemma on it.
LEMMA QueuedIs ==
    ASSUME NEW head, NEW payLoad, NEW what, NEW from, NEW token
    PROVE  Telling!Queued(head, payLoad, what, from, token) =
             QueuedFor(head, payLoad, what, from, token, registered)
  BY DEF Telling!Queued, QueuedFor

LEMMA HeaderType ==
    ASSUME NEW signature \in Nat, NEW msgId \in Nat, NEW clntId \in Telling!ClientId,
           NEW token \in U32Bytes, NEW isLast \in Nat, NEW head,
           head = Telling!Header(signature, msgId, clntId, token, isLast)
    PROVE  head \in HeaderData /\ head.token = token /\ head.msgId = msgId
<1>1. Telling!Word(0) \in U32Bytes
  BY WordType
<1> QED BY <1>1 DEF Telling!Header, HeaderData

LEMMA ClientMsgType ==
    ASSUME NEW c \in Telling!ClientId, NEW token \in U32Bytes, NEW id \in Nat,
           NEW head, head = Telling!createClientMsg(c, token, id)
    PROVE  head \in HeaderData /\ head.token = token /\ head.msgId = id
<1>1. Telling!SIGNATURE \in Nat /\ 1 \in Nat
  BY DEF Telling!SIGNATURE
<1>2. head = Telling!Header(Telling!SIGNATURE, id, c, token, 1)
  BY Zenon DEF Telling!createClientMsg
<1> QED BY <1>1, <1>2, HeaderType

LEMMA QueueStep ==
    ASSUME UpdatesInv, NEW head \in HeaderData, NEW payLoad \in Seq(Nat), NEW what \in Nat,
           NEW from \in Telling!ClientId, NEW token, head.token = token,
           what = Telling!client_currentPlaying_m
              <=> head.msgId = Telling!client_currentPlaying_m,
           Telling!Queue(Telling!Queued(head, payLoad, what, from, token)),
           registered' = registered
    PROVE  UpdatesInv'
<1>1. PICK u : u = Telling!Queued(head, payLoad, what, from, token)
  OBVIOUS
<1>2. u \in UpdateRecord /\ Good(u, registered)
  <2>1. registered \in SUBSET Telling!ClientId
    BY DEF UpdatesInv
  <2>2. u = QueuedFor(head, payLoad, what, from, head.token, registered)
    BY <1>1, QueuedIs, Zenon
  <2> QED BY <2>1, <2>2, GoodWhenQueued, Zenon
<1>3. update' = Append(update, u)
  BY <1>1, Zenon DEF Telling!Queue
<1>4. AllGood(update', registered)
  BY <1>2, <1>3, AllGoodAppend, Zenon DEF UpdatesInv
<1> QED BY <1>4, Zenon DEF UpdatesInv

LEMMA RegisterStep ==
    ASSUME UpdatesInv, NEW c \in Telling!ClientId, Telling!Register(c)
    PROVE  UpdatesInv'
<1>1. registered' = registered \cup {c} /\ update' = update
  BY DEF Telling!Register
<1>2. update \in Seq(UpdateRecord) /\ \A k \in 1 .. Len(update) : Good(update[k], registered)
  BY DEF UpdatesInv, AllGood
<1>3. \A k \in 1 .. Len(update) : Good(update[k], registered \cup {c})
  BY <1>2, Zenon DEF Good
<1>4. AllGood(update, registered \cup {c})
  BY <1>2, <1>3, Zenon DEF AllGood
<1> QED BY <1>1, <1>4 DEF UpdatesInv

\* What connectToClient and a deregistration tell the others.
LEMMA DeregisteredTold ==
    ASSUME UpdatesInv, NEW c \in registered,
           NEW u, u = [Telling!Queued(Telling!createClientMsg(c, Telling!Word(0),
                                                             Telling!client_deleteAllDataId_m),
                                      <<>>, Telling!client_deleteAllDataId_m, c, Telling!Word(0))
                       EXCEPT !.audience = @ \ {c}]
    PROVE  u \in UpdateRecord /\ Good(u, registered \ {c})
<1>1. PICK head : head = Telling!createClientMsg(c, Telling!Word(0),
                                                 Telling!client_deleteAllDataId_m)
  OBVIOUS
<1>2. PICK what : what = Telling!client_deleteAllDataId_m
  OBVIOUS
<1>3. PICK token : token = Telling!Word(0)
  OBVIOUS
<1>4. token \in U32Bytes
  BY <1>3, WordType
<1>5. c \in Telling!ClientId
  BY DEF UpdatesInv
<1>6. head \in HeaderData /\ head.token = token /\ head.msgId = what
  <2>1. what \in Nat
    BY <1>2 DEF Telling!client_deleteAllDataId_m
  <2>2. head = Telling!createClientMsg(c, token, what)
    BY <1>1, <1>2, <1>3, Zenon
  <2> QED BY <1>4, <1>5, <2>1, <2>2, ClientMsgType
<1>7. what \in Nat /\ what # Telling!client_currentPlaying_m
  BY <1>2 DEF Telling!client_deleteAllDataId_m, Telling!client_currentPlaying_m
<1>a. PICK A : A = registered \ {c}
  OBVIOUS
<1>8. u = QueuedFor(head, <<>>, what, c, head.token, A)
  <2>1. u = [Telling!Queued(head, <<>>, what, c, token) EXCEPT !.audience = @ \ {c}]
    BY <1>1, <1>2, <1>3, Zenon
  <2>2. u = [QueuedFor(head, <<>>, what, c, token, registered) EXCEPT !.audience = @ \ {c}]
    BY <2>1, QueuedIs, Zenon
  <2> QED BY <1>6, <1>a, <2>2 DEF QueuedFor
<1>9. A \in SUBSET Telling!ClientId /\ <<>> \in Seq(Nat)
  BY <1>a, EmptySeq DEF UpdatesInv
<1>10. what = Telling!client_currentPlaying_m <=> head.msgId = Telling!client_currentPlaying_m
  BY <1>6, <1>7
<1>11. u \in UpdateRecord /\ Good(u, A)
  BY <1>5, <1>6, <1>7, <1>8, <1>9, <1>10, GoodWhenQueued, Zenon
<1> QED BY <1>a, <1>11, Zenon

LEMMA DeregisterStep ==
    ASSUME UpdatesInv, NEW c \in Telling!ClientId, Telling!Deregister(c)
    PROVE  UpdatesInv'
<1>1. c \in registered /\ registered' = registered \ {c}
  BY DEF Telling!Deregister
<1>2. PICK u : u = [Telling!Queued(Telling!createClientMsg(c, Telling!Word(0),
                                                           Telling!client_deleteAllDataId_m),
                                   <<>>, Telling!client_deleteAllDataId_m, c, Telling!Word(0))
                    EXCEPT !.audience = @ \ {c}]
  OBVIOUS
<1>3. update' = Append(Telling!Forget(c, update), u)
  BY <1>2, Zenon DEF Telling!Deregister
<1>4. u \in UpdateRecord /\ Good(u, registered \ {c})
  BY <1>1, <1>2, DeregisteredTold
<1>5. AllGood(Telling!Forget(c, update), registered \ {c})
  <2>1. update \in Seq(UpdateRecord)
    BY DEF UpdatesInv, AllGood
  <2>2. ASSUME NEW k \in 1 .. Len(update)
        PROVE  Good([update[k] EXCEPT !.audience = update[k].audience \ {c}], registered \ {c})
    <3>1. PICK old \in UpdateRecord : old = update[k] /\ Good(old, registered)
      BY <2>1, ElementOfSeq DEF UpdatesInv, AllGood
    <3>2. PICK new : new = [old EXCEPT !.audience = old.audience \ {c}]
      OBVIOUS
    <3>3. /\ new.msg = old.msg /\ new.i = old.i /\ new.nth = old.nth /\ new.sent = old.sent
          /\ new.what = old.what /\ new.token = old.token
          /\ new.audience = old.audience \ {c}
      BY <3>1, <3>2 DEF UpdateRecord
    <3>4. new.audience \subseteq registered \ {c} /\ new.audience \subseteq old.audience
      BY <3>1, <3>3 DEF Good
    <3>5. Good(new, registered \ {c})
      BY <3>1, <3>3, <3>4, GoodAnyway
    <3> QED BY <3>1, <3>2, <3>5, Zenon
  <2> QED BY <2>1, <2>2, AllGoodForget
<1>6. AllGood(update', registered')
  BY <1>1, <1>3, <1>4, <1>5, AllGoodAppend
<1> QED BY <1>1, <1>6 DEF UpdatesInv

LEMMA RequestStep ==
    ASSUME UpdatesInv, NEW c \in Telling!ClientId, NEW token \in Token, NEW isLast \in {0, 1},
           Telling!ServAdd(c, token, isLast) \/ Telling!ServDelete(c, token, isLast)
    PROVE  UpdatesInv'
<1>1. token \in U32Bytes /\ isLast \in Nat /\ 0 \in Telling!ClientId
  BY TokenBytes, TransfersAssumption DEF Telling!ClientId
<1>2. CASE Telling!ServAdd(c, token, isLast)
  <2>1. PICK signature \in {Telling!SIGNATURE, 0} :
           Telling!Queue(Telling!Queued(Telling!Header(signature, Telling!resOk_m, c, token, isLast),
                                        <<7>>, Telling!client_add_m, c, token))
    BY <1>2 DEF Telling!ServAdd
  <2>2. PICK head : head = Telling!Header(signature, Telling!resOk_m, c, token, isLast)
    OBVIOUS
  <2>3. signature \in Nat /\ Telling!resOk_m \in Nat /\ Telling!client_add_m \in Nat
    BY DEF Telling!SIGNATURE, Telling!resOk_m, Telling!client_add_m
  <2>4. head \in HeaderData /\ head.token = token /\ head.msgId = Telling!resOk_m
    BY <1>1, <2>2, <2>3, HeaderType
  <2>5. /\ Telling!client_add_m # Telling!client_currentPlaying_m
        /\ Telling!resOk_m # Telling!client_currentPlaying_m
    BY DEF Telling!client_add_m, Telling!resOk_m, Telling!client_currentPlaying_m
  <2>6. <<7>> \in Seq(Nat) /\ registered' = registered
    BY <1>2 DEF Telling!ServAdd
  <2>7. Telling!Queue(Telling!Queued(head, <<7>>, Telling!client_add_m, c, token))
    BY <2>1, <2>2, Zenon
  <2> QED BY <2>3, <2>4, <2>5, <2>6, <2>7, QueueStep, Zenon
<1>3. CASE Telling!ServDelete(c, token, isLast)
  <2>1. PICK clntId \in Telling!ClientId :
           Telling!Queue(Telling!Queued(Telling!createClientMsg(clntId, token,
                                                                Telling!client_delete_req_m),
                                        <<>>, Telling!client_delete_req_m, c, token))
    BY <1>1, <1>3 DEF Telling!ServDelete
  <2>2. PICK head : head = Telling!createClientMsg(clntId, token, Telling!client_delete_req_m)
    OBVIOUS
  <2>3. Telling!client_delete_req_m \in Nat /\ token \in U32Bytes
    BY <1>1 DEF Telling!client_delete_req_m
  <2>4. head \in HeaderData /\ head.token = token /\ head.msgId = Telling!client_delete_req_m
    <3>1. PICK id \in Nat : id = Telling!client_delete_req_m
      BY <2>3
    <3>2. head = Telling!createClientMsg(clntId, token, id)
      BY <2>2, <3>1, Zenon
    <3>3. head \in HeaderData /\ head.token = token /\ head.msgId = id
      BY <2>3, <3>2, ClientMsgType
    <3> QED BY <3>1, <3>3, Zenon
  <2>5. Telling!client_delete_req_m # Telling!client_currentPlaying_m
    BY DEF Telling!client_delete_req_m, Telling!client_currentPlaying_m
  <2>6. <<>> \in Seq(Nat) /\ registered' = registered
    BY <1>3, EmptySeq DEF Telling!ServDelete
  <2>7. Telling!Queue(Telling!Queued(head, <<>>, Telling!client_delete_req_m, c, token))
    BY <2>1, <2>2, Zenon
  <2> QED BY <2>3, <2>4, <2>5, <2>6, <2>7, QueueStep, Zenon
<1> QED BY <1>2, <1>3

LEMMA PlayingStep ==
    ASSUME UpdatesInv, NEW c \in Telling!ClientId, NEW token \in Token,
           Telling!PlayingStarts(c, token)
    PROVE  UpdatesInv'
<1>1. token \in U32Bytes
  BY TokenBytes
<1>2. PICK head : head = Telling!createClientMsg(c, token, Telling!client_currentPlaying_m)
  OBVIOUS
<1>3. Telling!client_currentPlaying_m \in Nat
  BY DEF Telling!client_currentPlaying_m
<1>4. head \in HeaderData /\ head.token = token /\ head.msgId = Telling!client_currentPlaying_m
  BY <1>1, <1>2, <1>3, ClientMsgType
<1>5. <<>> \in Seq(Nat) /\ registered' = registered
  BY EmptySeq DEF Telling!PlayingStarts
<1>6. Telling!Queue(Telling!Queued(head, <<>>, Telling!client_currentPlaying_m, c, token))
  BY <1>2, Zenon DEF Telling!PlayingStarts
<1> QED BY <1>3, <1>4, <1>5, <1>6, QueueStep, Zenon

\* The update that a worker is at.
LEMMA UpdateAt ==
    ASSUME UpdatesInv, NEW k \in DOMAIN update
    PROVE  update[k] \in UpdateRecord /\ Good(update[k], registered)
<1>1. update \in Seq(UpdateRecord) /\ k \in 1 .. Len(update)
  BY LenProperties DEF UpdatesInv, AllGood
<1> QED BY <1>1, ElementOfSeq DEF UpdatesInv, AllGood

LEMMA SkipStep ==
    ASSUME UpdatesInv, NEW k \in DOMAIN update, Telling!Skip(k) PROVE UpdatesInv'
<1>1. PICK u \in UpdateRecord : u = update[k] /\ Good(u, registered)
  BY UpdateAt
<1>2. PICK v : v = [u EXCEPT !.i = u.i + 1]
  OBVIOUS
<1>3. update' = [update EXCEPT ![k] = v] /\ registered' = registered
  BY <1>1, <1>2 DEF Telling!Skip
<1>4. u.i < MaxClient /\ u.i \in Nat
  BY <1>1, TransfersAssumption DEF Telling!Skip, UpdateRecord
<1>5. v \in UpdateRecord
  <2>1. u.i + 1 \in 0 .. MaxClient
    BY <1>4, TransfersAssumption
  <2> QED BY <1>2, <2>1 DEF UpdateRecord
<1>6. u.i \notin u.audience \ About(u)
  <2>1. \/ u.i \notin registered
        \/ /\ u.i = u.msg.header.clntId
           /\ u.msg.header.msgId # Telling!client_currentPlaying_m
    BY <1>1 DEF Telling!Skip, Telling!Skips
  <2> QED BY <1>1, <2>1 DEF Good, About
<1>7. /\ v.i = u.i + 1 /\ v.sent = u.sent /\ v.what = u.what /\ v.token = u.token
      /\ v.msg = u.msg /\ v.nth = u.nth /\ v.audience = u.audience
  BY <1>2 DEF UpdateRecord
<1>8. v.audience \subseteq registered /\ v.msg.header.token = TokenAfter(v.token, v.nth)
  BY <1>1, <1>7 DEF Good
<1>9. Good(v, registered)
  BY <1>1, <1>6, <1>7, <1>8, GoodWithoutPacket
<1>10. AllGood(update', registered)
  BY <1>3, <1>5, <1>9, AllGoodExcept DEF UpdatesInv
<1> QED BY <1>3, <1>10 DEF UpdatesInv

LEMMA SentStep ==
    ASSUME UpdatesInv, NEW k \in DOMAIN update, Telling!sendOneUpdate(k) PROVE UpdatesInv'
<1>1. PICK u \in UpdateRecord : u = update[k] /\ Good(u, registered)
  BY UpdateAt
<1>2. PICK s : s = [to |-> u.i, nth |-> u.nth, packet |-> Telling!encodePacket(u.msg)]
  OBVIOUS
<1>3. PICK v : v = [u EXCEPT !.i = u.i + 1, !.msg = Telling!Encoded(u.msg), !.nth = u.nth + 1,
                             !.sent = Append(u.sent, s)]
  OBVIOUS
<1>4. u.i < MaxClient
  BY <1>1 DEF Telling!sendOneUpdate, Telling!Target
<1>5. v \in UpdateRecord /\ Good(v, registered)
  BY <1>1, <1>2, <1>3, <1>4, GoodWithPacket
<1>6. update' = [update EXCEPT ![k] = v] /\ registered' = registered
  <2>1. update' = [update EXCEPT ![k] =
                     [u EXCEPT !.i = u.i + 1, !.msg = Telling!Encoded(u.msg), !.nth = u.nth + 1,
                               !.sent = Append(u.sent, [to |-> u.i, nth |-> u.nth,
                                                        packet |-> Telling!encodePacket(u.msg)])]]
    BY <1>1 DEF Telling!sendOneUpdate, UpdateRecord
  <2>2. registered' = registered
    BY DEF Telling!sendOneUpdate
  <2> QED BY <1>2, <1>3, <2>1, <2>2, Zenon
<1>7. AllGood(update', registered)
  BY <1>5, <1>6, AllGoodExcept DEF UpdatesInv
<1> QED BY <1>6, <1>7 DEF UpdatesInv

LEMMA FailStep ==
    ASSUME UpdatesInv, NEW k \in DOMAIN update, Telling!SendFails(k) PROVE UpdatesInv'
<1>1. PICK u \in UpdateRecord : u = update[k] /\ Good(u, registered)
  BY UpdateAt
<1>2. PICK new : new = Telling!Encoded(u.msg)
  OBVIOUS
<1>3. PICK v : v = [u EXCEPT !.i = u.i + 1, !.msg = new, !.nth = u.nth + 1,
                             !.audience = u.audience \ {u.i}]
  OBVIOUS
<1>4. /\ u.i < MaxClient /\ u.i \in Nat /\ u.msg \in MsgData /\ u.nth \in Nat
      /\ u.token \in U32Bytes
  <2>1. /\ u.i \in Nat /\ u.msg \in MsgData /\ u.nth \in Nat /\ u.token \in U32Bytes
    BY TransfersAssumption DEF UpdateRecord
  <2>2. u.i < MaxClient
    BY <1>1, Zenon DEF Telling!SendFails, Telling!Target
  <2> QED BY <2>1, <2>2
<1>5. update' = [update EXCEPT ![k] = v] /\ registered' = registered
  <2>1. update' = [update EXCEPT ![k] =
                     [u EXCEPT !.i = u.i + 1, !.msg = Telling!Encoded(u.msg), !.nth = u.nth + 1,
                               !.audience = u.audience \ {u.i}]]
    BY <1>1 DEF Telling!SendFails, UpdateRecord
  <2>2. registered' = registered
    BY DEF Telling!SendFails
  <2> QED BY <1>2, <1>3, <2>1, <2>2, Zenon
<1>6. /\ new \in MsgData /\ new.payLoad = u.msg.payLoad
      /\ new.header.signature = u.msg.header.signature
      /\ new.header.msgId = u.msg.header.msgId /\ new.header.clntId = u.msg.header.clntId
      /\ new.header.isLast = u.msg.header.isLast
      /\ new.header.token = Telling!Swap(u.msg.header.token)
  BY <1>2, <1>4, EncodedIs, Zenon
<1>7. v \in UpdateRecord
  <2>1. u.i + 1 \in 0 .. MaxClient /\ u.nth + 1 \in Nat
    BY <1>4, TransfersAssumption
  <2>2. u.audience \ {u.i} \in SUBSET Telling!ClientId
    BY DEF UpdateRecord
  <2> QED BY <1>3, <1>6, <2>1, <2>2 DEF UpdateRecord
<1>8. /\ v.i = u.i + 1 /\ v.sent = u.sent /\ v.what = u.what /\ v.token = u.token
      /\ v.msg = new /\ v.nth = u.nth + 1 /\ v.audience = u.audience \ {u.i}
  BY <1>3 DEF UpdateRecord
<1>9. v.msg.header.token = TokenAfter(v.token, v.nth)
  <2>1. u.msg.header.token = TokenAfter(u.token, u.nth)
    BY <1>1 DEF Good
  <2> QED BY <1>4, <1>6, <1>8, <2>1, TokenSwapped, Zenon
<1>10. /\ v.audience \subseteq registered /\ v.audience \subseteq u.audience
       /\ u.i \notin v.audience \ About(u)
  BY <1>1, <1>8 DEF Good
<1>11. Good(v, registered)
  BY <1>1, <1>6, <1>8, <1>9, <1>10, GoodWithoutPacket
<1>12. AllGood(update', registered)
  BY <1>5, <1>7, <1>11, AllGoodExcept DEF UpdatesInv
<1> QED BY <1>5, <1>12 DEF UpdatesInv

LEMMA ConnectFailsStep ==
    ASSUME UpdatesInv, NEW k \in DOMAIN update, Telling!ConnectFails(k) PROVE UpdatesInv'
<1>1. PICK u \in UpdateRecord : u = update[k] /\ Good(u, registered)
  BY UpdateAt
<1>2. PICK c : c = u.i
  OBVIOUS
<1>3. c \in registered /\ c < MaxClient /\ c \in Nat /\ registered' = registered \ {c}
  BY <1>1, <1>2, TransfersAssumption
     DEF Telling!ConnectFails, Telling!Target, Telling!Skips, UpdateRecord
<1>4. PICK new : new = [Telling!Queued(Telling!createClientMsg(c, Telling!Word(0),
                                                             Telling!client_deleteAllDataId_m),
                                       <<>>, Telling!client_deleteAllDataId_m, c, Telling!Word(0))
                        EXCEPT !.audience = @ \ {c}]
  OBVIOUS
<1>5. new \in UpdateRecord /\ Good(new, registered \ {c})
  BY <1>3, <1>4, DeregisteredTold
<1>6. PICK next1 : next1 = [u EXCEPT !.i = c + 1]
  OBVIOUS
<1>7. PICK us : us = [update EXCEPT ![k] = next1]
  OBVIOUS
<1>8. update' = Append(Telling!Forget(c, us), new)
  <2>1. update' = Append(Telling!Forget(c, [update EXCEPT ![k].i = @ + 1]), new)
    BY <1>1, <1>2, <1>4, Zenon DEF Telling!ConnectFails
  <2>2. [update EXCEPT ![k].i = @ + 1] = us
    BY <1>1, <1>2, <1>6, <1>7
  <2> QED BY <2>1, <2>2, Zenon
<1>9. update \in Seq(UpdateRecord) /\ k \in 1 .. Len(update)
  BY LenProperties DEF UpdatesInv, AllGood
<1>10. next1 \in UpdateRecord
  <2>1. c + 1 \in 0 .. MaxClient
    BY <1>3, TransfersAssumption
  <2> QED BY <1>6, <2>1 DEF UpdateRecord
<1>11. /\ us \in Seq(UpdateRecord) /\ Len(us) = Len(update)
       /\ \A j \in 1 .. Len(update) : us[j] = IF j = k THEN next1 ELSE update[j]
  BY <1>7, <1>9, <1>10, ExceptSeq
<1>12. ASSUME NEW j \in 1 .. Len(us)
       PROVE  Good([us[j] EXCEPT !.audience = us[j].audience \ {c}], registered \ {c})
  <2>1. PICK old \in UpdateRecord : old = update[j] /\ Good(old, registered)
    BY <1>9, <1>11, ElementOfSeq DEF UpdatesInv, AllGood
  <2>2. PICK w \in UpdateRecord : w = us[j]
    BY <1>11, ElementOfSeq
  <2>3. PICK v : v = [w EXCEPT !.audience = w.audience \ {c}]
    OBVIOUS
  <2>4. /\ v.msg = w.msg /\ v.i = w.i /\ v.nth = w.nth /\ v.sent = w.sent
        /\ v.what = w.what /\ v.token = w.token /\ v.audience = w.audience \ {c}
    BY <2>3 DEF UpdateRecord
  <2>5. CASE j # k
    <3>1. w = old
      BY <1>11, <2>1, <2>2, <2>5
    <3>2. v.audience \subseteq registered \ {c} /\ v.audience \subseteq old.audience
      BY <2>1, <2>4, <3>1 DEF Good
    <3>3. Good(v, registered \ {c})
      BY <2>1, <2>4, <3>1, <3>2, GoodAnyway
    <3> QED BY <2>2, <2>3, <3>3, Zenon
  <2>6. CASE j = k
    <3>1. w = next1
      BY <1>11, <2>2, <2>6
    <3>2. /\ v.i = u.i + 1 /\ v.sent = u.sent /\ v.what = u.what /\ v.token = u.token
          /\ v.msg = u.msg /\ v.nth = u.nth /\ v.audience = u.audience \ {u.i}
      BY <1>2, <1>6, <2>4, <3>1 DEF UpdateRecord
    <3>3. /\ v.audience \subseteq registered \ {c} /\ v.audience \subseteq u.audience
          /\ u.i \notin v.audience \ About(u)
          /\ v.msg.header.token = TokenAfter(v.token, v.nth)
      BY <1>1, <1>2, <3>2 DEF Good
    <3>4. Good(v, registered \ {c})
      BY <1>1, <3>2, <3>3, GoodWithoutPacket
    <3> QED BY <2>2, <2>3, <3>4, Zenon
  <2> QED BY <2>5, <2>6
<1>13. AllGood(Telling!Forget(c, us), registered \ {c})
  BY <1>11, <1>12, AllGoodForget
<1>14. AllGood(update', registered')
  BY <1>3, <1>5, <1>8, <1>13, AllGoodAppend
<1> QED BY <1>3, <1>14 DEF UpdatesInv

LEMMA UpdatesSafe == Telling!Spec => []UpdatesInv
<1>1. UpdatesInv /\ [Telling!Next]_(Telling!vars) => UpdatesInv'
  <2> SUFFICES ASSUME UpdatesInv, [Telling!Next]_(Telling!vars) PROVE UpdatesInv'
    OBVIOUS
  <2>1. CASE UNCHANGED Telling!vars
    BY <2>1 DEF Telling!vars, UpdatesInv
  <2> QED BY <2>1, RegisterStep, DeregisterStep, RequestStep, PlayingStep, SkipStep, SentStep,
             FailStep, ConnectFailsStep, Zenon
          DEF Telling!Next, Telling!sendOneUpdateToAllClient
<1> QED BY UpdatesInit, <1>1, PTL DEF Telling!Spec

\* When the loop is done, everybody else who stayed and could be reached has been told, and
\* told once, whoever registers, leaves or fails while it runs (clientdb.c:642-683).
THEOREM EveryoneIsTold == Telling!Spec => []EveryoneElseIsTold
<1>1. UpdatesInv => EveryoneElseIsTold
  <2> SUFFICES ASSUME UpdatesInv, NEW k \in DOMAIN update, update[k].i = MaxClient,
                      NEW c \in update[k].audience \ About(update[k])
               PROVE  ToldOnce(update[k].sent, c)
    BY DEF EveryoneElseIsTold, Telling!EveryoneElseIsTold, About, ToldOnce
  <2>1. PICK u \in UpdateRecord : u = update[k] /\ Good(u, registered)
    BY UpdateAt
  <2>2. c < u.i
    BY <2>1, TransfersAssumption DEF UpdateRecord, Telling!ClientId
  <2>3. ToldOnce(u.sent, c)
    BY <2>1, <2>2 DEF Good
  <2> QED BY <2>1, <2>3, Zenon
<1> QED BY UpdatesSafe, <1>1, PTL

\* What a client decodes is what was queued, but for the token, which is right in every
\* other encoding (clientdb.c:569-594, packet.c:78-133).
THEOREM PacketsAreRight == Telling!Spec => []PacketsArrive
<1>1. UpdatesInv => PacketsArrive
  <2>1. ASSUME UpdatesInv, NEW k \in DOMAIN update, NEW n \in DOMAIN update[k].sent
        PROVE  Arrives(update[k], update[k].sent[n])
    BY <2>1, UpdateAt DEF Good
  <2> QED BY <2>1, Zenon DEF PacketsArrive, Telling!PacketsArrive, Arrives, TokenAfter
<1> QED BY UpdatesSafe, <1>1, PTL

-----------------------------------------------------------------------------
(* The scheduling slots while workers drop clients.                         *)

\* A song that is about to be added has been counted already.
WaitingBound ==
    \A id \in Slots!ClientId :
        /\ waiting[id] \in Nat /\ waiting[id] <= messages
        /\ at[Slots!rm] = "add" => waiting[id] < messages

ThreadPlaces ==
    /\ \A w \in Worker :
          at[w] \notin Slots!RmPc /\ (at[w] \in Slots!DeregisterPc => back[w] # "run")
    /\ at[Slots!rm] \notin {"again", "post"}
    /\ at[Slots!rm] \in Slots!DeregisterPc => back[Slots!rm] = "run"

ErrorDue(w) == at[w] = "post" \/ (at[w] \in Slots!DeregisterPc /\ back[w] = "post")

OnePosts ==
    /\ \A w \in Worker : ErrorDue(w) => download.state = "failing"
    /\ \A v, w \in Worker : ErrorDue(v) /\ ErrorDue(w) => v = w

Machine ==
    /\ Slots!OneAnswerIsAwaited
    /\ Slots!AnswerServed => Slots!AwaitingDownload
    /\ at[Slots!rm] = "add" => served = "rm_clntMsg_m"
    /\ at[Slots!rm] = "answer" => download.state \in Slots!Answers /\ served = download.state
    /\ at[Slots!rm] \in {"ready", "play"} => rmState = "rm_Downloading"
    /\ at[Slots!rm] \in {"active", "activate"} => rmState = "rm_Playing"
    /\ at[Slots!rm] = "schedule" => rmState \in {"rm_Idle", "rm_Playing"}

DroppingInv == Slots!DroppingTypeOK /\ WaitingBound /\ ThreadPlaces /\ OnePosts /\ Machine

LEMMA InitDropping == Slots!DroppingInit => DroppingInv
<1> SUFFICES ASSUME Slots!DroppingInit PROVE DroppingInv
  OBVIOUS
<1> USE TransfersAssumption DEF Slots!DroppingInit
<1>1. /\ 0 \in Slots!ClientId /\ 0 \in Slots!SlotIndex
      /\ 0 \in 0 .. MaxSongRequests /\ 0 \in 0 .. MaxFailures
      /\ Slots!rm \in Slots!Thread /\ Worker \subseteq Slots!Thread
  BY DEF Slots!ClientId, Slots!SlotIndex, Slots!Thread
<1>2. Slots!DroppingTypeOK
  BY <1>1 DEF Slots!DroppingTypeOK, Slots!Status, Slots!Pc
<1>3. WaitingBound
  BY <1>1 DEF WaitingBound
<1>4. ThreadPlaces /\ OnePosts
  BY <1>1 DEF ThreadPlaces, OnePosts, ErrorDue, Slots!RmPc, Slots!DeregisterPc
<1>5. Machine
  BY <1>1
  DEF Machine, Slots!OneAnswerIsAwaited, Slots!AnswerServed, Slots!AwaitingDownload,
      Slots!DeregisterPc
<1> QED BY <1>2, <1>3, <1>4, <1>5 DEF DroppingInv

\* Where a thread can be.
LEMMA SlotThreads ==
    /\ Slots!rm \in Slots!Thread /\ Worker \subseteq Slots!Thread /\ Slots!rm \notin Worker
    /\ Slots!Thread = Worker \cup {Slots!rm}
  BY TransfersAssumption DEF Slots!Thread, Slots!rm

LEMMA UpdateCounts ==
    ASSUME updates \in [Slots!ClientId -> 0 .. MaxFailures], NEW ids, Slots!Update(ids)
    PROVE  updates' \in [Slots!ClientId -> 0 .. MaxFailures]
  BY TransfersAssumption DEF Slots!Update

\* What a step of deregisterClient changes, whichever thread takes it.
DeregisterChange(t) ==
    /\ at[t] \in Slots!DeregisterPc
    /\ \E pc \in Slots!DeregisterPc \cup {back[t]} : at' = [at EXCEPT ![t] = pc]
    /\ UNCHANGED <<client, back, download, rmState, served, found, scheduleIndex, messages,
                   failures>>
    /\ slotAt' \in {slotAt, [slotAt EXCEPT ![t] = 1 - @]}
    /\ seen' \in {seen, [seen EXCEPT ![t] = "PL_NONE"],
                  [seen EXCEPT ![t] = schData[slotAt[t]].status]}
    /\ waiting' \in {waiting, [waiting EXCEPT ![client[t]] = 0]}
    /\ clientState' \in {clientState, [clientState EXCEPT ![client[t]] = "unregister"]}
    /\ schData' \in {schData, [schData EXCEPT ![slotAt[t]].status = "PL_NONE"]}
    /\ stale = TRUE => stale' = TRUE
    /\ stale' \in BOOLEAN /\ updates' \in [Slots!ClientId -> 0 .. MaxFailures]

LEMMA DeregisterDoes ==
    ASSUME DroppingInv, NEW t \in Slots!Thread, Slots!Deregister(t) PROVE DeregisterChange(t)
<1> USE DEF DeregisterChange, DroppingInv, Slots!DroppingTypeOK, Slots!At, Slots!GoTo,
           Slots!NextSlot, Slots!DeregisterPc, Slots!dbVars, Slots!rmVars, Slots!callVars,
           Slots!boundVars
<1>1. CASE Slots!Test(t)
  BY <1>1 DEF Slots!Test
<1>2. CASE Slots!ReadOwner(t)
  BY <1>2 DEF Slots!ReadOwner
<1>3. CASE Slots!ReadStatus(t)
  BY <1>3 DEF Slots!ReadStatus
<1>4. CASE Slots!Clear(t)
  BY <1>4 DEF Slots!Clear
<1>5. CASE Slots!DeleteSongs(t)
  BY <1>5 DEF Slots!DeleteSongs
<1>6. CASE Slots!ClearState(t)
  BY <1>6, UpdateCounts DEF Slots!ClearState
<1> QED BY <1>1, <1>2, <1>3, <1>4, <1>5, <1>6 DEF Slots!Deregister

LEMMA DeregisterKeepsInv ==
    ASSUME DroppingInv, NEW t \in Slots!Thread, Slots!Deregister(t) PROVE DroppingInv'
<1> USE SlotThreads
<1>0. DeregisterChange(t)
  BY DeregisterDoes
<1>1. back[t] \in {"run", "again", "post", "idle"} /\ (t = Slots!rm <=> back[t] = "run")
  BY <1>0 DEF DeregisterChange, DroppingInv, ThreadPlaces, Slots!DroppingTypeOK
<1>2. PICK pc \in Slots!DeregisterPc \cup {back[t]} : at' = [at EXCEPT ![t] = pc]
  BY <1>0 DEF DeregisterChange
<1>3. Slots!DroppingTypeOK'
  <2>1. /\ at \in [Slots!Thread -> Slots!Pc] /\ slotAt \in [Slots!Thread -> Slots!SlotIndex]
        /\ seen \in [Slots!Thread -> Slots!Status] /\ client \in [Slots!Thread -> Slots!ClientId]
        /\ schData \in [Slots!SlotIndex -> [clientId : Slots!ClientId, status : Slots!Status]]
        /\ waiting \in [Slots!ClientId -> 0 .. MaxSongRequests]
    BY DEF DroppingInv, Slots!DroppingTypeOK
  <2>2. at' \in [Slots!Thread -> Slots!Pc]
    BY <1>1, <1>2, <2>1 DEF Slots!Pc, Slots!RmPc
  <2>3. schData' \in [Slots!SlotIndex -> [clientId : Slots!ClientId, status : Slots!Status]]
    BY <2>1, <1>0 DEF DeregisterChange, Slots!Status
  <2>4. 0 \in 0 .. MaxSongRequests
    BY TransfersAssumption
  <2>5. waiting' \in [Slots!ClientId -> 0 .. MaxSongRequests]
    BY <2>1, <2>4, <1>0 DEF DeregisterChange
  <2>6. slotAt' \in [Slots!Thread -> Slots!SlotIndex] /\ seen' \in [Slots!Thread -> Slots!Status]
    BY <2>1, <1>0 DEF DeregisterChange, Slots!SlotIndex, Slots!Status
  <2>7. clientState' \in [Slots!ClientId -> {"unregister", "registered", "active"}]
    BY <2>1, <1>0 DEF DeregisterChange, DroppingInv, Slots!DroppingTypeOK
  <2> QED BY <2>2, <2>3, <2>5, <2>6, <2>7, <1>0
     DEF DeregisterChange, DroppingInv, Slots!DroppingTypeOK
<1>4. WaitingBound'
  <2>1. \A id \in Slots!ClientId : waiting'[id] = waiting[id] \/ waiting'[id] = 0
    BY <1>0 DEF DeregisterChange, DroppingInv, Slots!DroppingTypeOK
  <2>2. at'[Slots!rm] = "add" => at[Slots!rm] = "add"
    BY <1>1, <1>2 DEF DroppingInv, Slots!DroppingTypeOK, Slots!DeregisterPc
  <2>3. messages \in Nat /\ messages' = messages
    BY <1>0, TransfersAssumption
    DEF DeregisterChange, DroppingInv, Slots!DroppingTypeOK
  <2> QED BY <2>1, <2>2, <2>3 DEF DroppingInv, WaitingBound
<1>5. ThreadPlaces' /\ OnePosts'
  BY <1>1, <1>2, <1>0
  DEF DeregisterChange, DroppingInv, Slots!DroppingTypeOK, ThreadPlaces, OnePosts, ErrorDue,
      Slots!DeregisterPc, Slots!RmPc
<1>6. Machine'
  BY <1>1, <1>2, <1>0
  DEF DeregisterChange, DroppingInv, Slots!DroppingTypeOK, ThreadPlaces, Machine,
      Slots!OneAnswerIsAwaited, Slots!AnswerServed, Slots!AwaitingDownload, Slots!DeregisterPc,
      Slots!RmPc
<1> QED BY <1>3, <1>4, <1>5, <1>6 DEF DroppingInv

LEMMA DroppingInvStep == ASSUME DroppingInv, Slots!DroppingNext PROVE DroppingInv'
<1> USE SlotThreads, TransfersAssumption
     DEF DroppingInv, Slots!DroppingTypeOK, WaitingBound, ThreadPlaces, OnePosts, ErrorDue, Machine,
         Slots!OneAnswerIsAwaited, Slots!AnswerServed, Slots!Answers, Slots!AwaitingDownload,
         Slots!At, Slots!GoTo, Slots!Pc, Slots!DeregisterPc, Slots!RmPc, Slots!SlotIndex,
         Slots!Status, Slots!dbVars, Slots!rmVars, Slots!callVars, Slots!boundVars
<1>1. ASSUME NEW t \in Slots!Thread, Slots!Deregister(t)
      PROVE  DroppingInv'
  BY <1>1, DeregisterKeepsInv
<1>2. ASSUME NEW msgId \in {"rm_dw_complete_m", "rm_dw_err_m"}, Slots!DownloadEnds(msgId)
      PROVE  DroppingInv'
  BY <1>2 DEF Slots!DownloadEnds
<1>3. ASSUME NEW w \in Worker, Slots!DownloadConnectFails(w)
      PROVE  DroppingInv'
  BY <1>3 DEF Slots!DownloadConnectFails, Slots!CallDeregister, Slots!Drop
<1>4. ASSUME NEW w \in Worker, Slots!PostError(w)
      PROVE  DroppingInv'
  BY <1>4 DEF Slots!PostError
<1>5. ASSUME NEW w \in Worker, NEW id \in Slots!ClientId, Slots!UpdateConnectFails(w, id)
      PROVE  DroppingInv'
  BY <1>5 DEF Slots!UpdateConnectFails, Slots!CallDeregister, Slots!Drop
<1>6. ASSUME NEW w \in Worker, Slots!DeregisterAgain(w)
      PROVE  DroppingInv'
  BY <1>6 DEF Slots!DeregisterAgain, Slots!CallDeregister
<1>7. ASSUME NEW id \in Slots!ClientId, Slots!registerClient(id)
      PROVE  DroppingInv'
  BY <1>7 DEF Slots!registerClient, Slots!Request
<1>8. ASSUME NEW id \in Slots!ClientId, Slots!StartDeregister(id)
      PROVE  DroppingInv'
  BY <1>8 DEF Slots!StartDeregister, Slots!Request, Slots!CallDeregister
<1>9. ASSUME NEW id \in Slots!ClientId, Slots!AddTest(id)
      PROVE  DroppingInv'
  BY <1>9 DEF Slots!AddTest, Slots!Request
<1>10. CASE Slots!AddSong
  BY <1>10, UpdateCounts DEF Slots!AddSong
<1>11. ASSUME NEW id \in Slots!ClientId, Slots!deleteFromQueue(id)
      PROVE  DroppingInv'
  BY <1>11, UpdateCounts DEF Slots!deleteFromQueue, Slots!Request
<1>12. CASE Slots!Refused
  BY <1>12 DEF Slots!Refused, Slots!Request
<1>13. CASE Slots!ServeAnswer
  <2>1. found' \in Slots!SlotIndex
    <3>1. CASE Slots!Mismatch
      BY <3>1, <1>13 DEF Slots!ServeAnswer
    <3>2. CASE ~Slots!Mismatch
      <4>1. \E i \in 0 .. 1 : Slots!DownloadSlot(i) /\ (i = 1 => ~Slots!DownloadSlot(0))
        BY <3>2 DEF Slots!Mismatch
      <4> QED BY <3>2, <4>1, <1>13 DEF Slots!ServeAnswer
    <3> QED BY <3>1, <3>2
  <2> QED BY <2>1, <1>13 DEF Slots!ServeAnswer
<1>14. CASE Slots!SetAnswered
  BY <1>14 DEF Slots!SetAnswered
<1>15. CASE Slots!NotifyEnds
  BY <1>15 DEF Slots!NotifyEnds
<1>16. CASE Slots!NotifyConnectFails
  BY <1>16 DEF Slots!NotifyConnectFails, Slots!CallDeregister, Slots!Drop
<1>17. CASE Slots!RunState
  BY <1>17 DEF Slots!RunState, Slots!rmRunState
<1>18. CASE Slots!FindReady
  BY <1>18 DEF Slots!FindReady
<1>19. CASE Slots!SetPlaying
  BY <1>19 DEF Slots!SetPlaying
<1>20. CASE Slots!ActiveTest
  BY <1>20, UpdateCounts DEF Slots!ActiveTest
<1>21. CASE Slots!SetActive
  BY <1>21, UpdateCounts DEF Slots!SetActive
<1>22. ASSUME NEW id \in Slots!ClientId, Slots!callSchedular(id)
      PROVE  DroppingInv'
  BY <1>22 DEF Slots!callSchedular
<1>23. CASE Slots!callSchedularNoClient
  BY <1>23 DEF Slots!callSchedularNoClient
<1> HIDE DEF DroppingInv
<1> QED
  BY <1>1, <1>2, <1>3, <1>4, <1>5, <1>6, <1>7, <1>8, <1>9, <1>10, <1>11, <1>13, <1>15, <1>16,
     <1>17, <1>18, <1>19, <1>20, <1>21, <1>22, <1>23, <1>14, <1>12
  DEF Slots!DroppingNext, Slots!RmStep, Slots!WorkerStep

\* OnlyStaleClearsHurt with its parts named, and where they come from.
DownloadHasSlot ==
    \A i \in Slots!SlotIndex :
        /\ schData[i].status = "PL_DOWNLOADING" <=> download.state # "none" /\ i # scheduleIndex
        /\ download.state # "none" /\ i # scheduleIndex => schData[i].clientId = download.clntId

PlayingHasSlot ==
    Slots!InPlaying <=> \E i \in Slots!SlotIndex : schData[i].status = "PL_PLAYING"

ReadyIsExpected ==
    \A i \in Slots!SlotIndex :
        schData[i].status = "PL_READY" =>
            \/ rmState = "rm_Playing_Downloaded"
            \/ Slots!AnswerServed /\ served = "rm_dw_complete_m"
            \/ at[Slots!rm] = "ready"
            \/ at[Slots!rm] = "play" /\ i = found

FoundIsDownload == at[Slots!rm] = "answer" => found # scheduleIndex

Different == schData[0].status = schData[1].status => schData[0].status = "PL_NONE"

SlotsAgree ==
    DownloadHasSlot /\ PlayingHasSlot /\ ReadyIsExpected /\ FoundIsDownload /\ Different

SlotsInv == DroppingInv /\ (stale \/ SlotsAgree)

LEMMA InitSlotsInv == Slots!DroppingInit => SlotsInv
<1> SUFFICES ASSUME Slots!DroppingInit PROVE SlotsInv
  OBVIOUS
<1> QED
  BY InitDropping, SlotThreads
  DEF Slots!DroppingInit, SlotsInv, SlotsAgree, DownloadHasSlot, PlayingHasSlot,
      ReadyIsExpected, FoundIsDownload, Different, Slots!InPlaying, Slots!SlotIndex

\* What deregisterClient clears was ready, or it is stale.
LEMMA DeregisterKeepsSlots ==
    ASSUME SlotsInv, NEW t \in Slots!Thread, Slots!Deregister(t), ~stale' PROVE SlotsAgree'
<1> USE SlotThreads
<1>0. DeregisterChange(t)
  BY DeregisterDoes DEF SlotsInv
<1>1. SlotsAgree /\ ~stale
  BY <1>0 DEF DeregisterChange, SlotsInv, DroppingInv, Slots!DroppingTypeOK
<1>2. /\ schData \in [Slots!SlotIndex -> [clientId : Slots!ClientId, status : Slots!Status]]
      /\ slotAt[t] \in Slots!SlotIndex
  BY DEF SlotsInv, DroppingInv, Slots!DroppingTypeOK
<1>3. schData' # schData => schData[slotAt[t]].status \notin {"PL_PLAYING", "PL_DOWNLOADING"}
  <2>1. CASE Slots!Clear(t)
    BY <2>1 DEF Slots!Clear, SlotsInv, DroppingInv, Slots!DroppingTypeOK
  <2>2. CASE ~Slots!Clear(t)
    BY <2>2
    DEF Slots!Deregister, Slots!Test, Slots!ReadOwner, Slots!ReadStatus, Slots!DeleteSongs,
        Slots!ClearState, Slots!dbVars
  <2> QED BY <2>1, <2>2
<1>4. \A i \in Slots!SlotIndex :
         /\ schData'[i].clientId = schData[i].clientId
         /\ schData'[i].status \in {schData[i].status, "PL_NONE"}
         /\ schData[i].status \in {"PL_PLAYING", "PL_DOWNLOADING"} =>
               schData'[i].status = schData[i].status
  BY <1>2, <1>3, <1>0 DEF DeregisterChange, SlotsInv
<1>5. /\ Slots!AnswerServed' <=> Slots!AnswerServed
      /\ at[Slots!rm] = "ready" <=> at'[Slots!rm] = "ready"
      /\ at[Slots!rm] = "play" <=> at'[Slots!rm] = "play"
      /\ at[Slots!rm] = "answer" <=> at'[Slots!rm] = "answer"
  BY <1>0
  DEF DeregisterChange, SlotsInv, DroppingInv, Slots!DroppingTypeOK, ThreadPlaces, Slots!AnswerServed,
      Slots!DeregisterPc
<1> QED
  BY <1>1, <1>4, <1>5, <1>0
  DEF DeregisterChange, SlotsInv, SlotsAgree, DownloadHasSlot, PlayingHasSlot, ReadyIsExpected,
      FoundIsDownload, Different, Slots!InPlaying, Slots!SlotIndex

LEMMA SlotsStep == ASSUME SlotsInv, Slots!DroppingNext, ~stale' PROVE SlotsAgree'
<1> USE SlotThreads
     DEF SlotsInv, DroppingInv, Slots!DroppingTypeOK, ThreadPlaces, OnePosts, ErrorDue, Machine,
         Slots!OneAnswerIsAwaited, Slots!AnswerServed, Slots!Answers, Slots!AwaitingDownload,
         Slots!At, Slots!GoTo, Slots!DeregisterPc, Slots!RmPc, Slots!SlotIndex, SlotsAgree,
         DownloadHasSlot, PlayingHasSlot, ReadyIsExpected, FoundIsDownload, Different, Slots!InPlaying,
         Slots!Mismatch, Slots!DownloadSlot, Slots!dbVars, Slots!rmVars, Slots!callVars,
         Slots!boundVars
<1>1. ASSUME NEW t \in Slots!Thread, Slots!Deregister(t)
      PROVE  SlotsAgree'
  BY <1>1, DeregisterKeepsSlots
<1>2. ASSUME NEW msgId \in {"rm_dw_complete_m", "rm_dw_err_m"}, Slots!DownloadEnds(msgId)
      PROVE  SlotsAgree'
  BY <1>2 DEF Slots!DownloadEnds
<1>3. ASSUME NEW w \in Worker, Slots!DownloadConnectFails(w)
      PROVE  SlotsAgree'
  BY <1>3 DEF Slots!DownloadConnectFails, Slots!CallDeregister, Slots!Drop
<1>4. ASSUME NEW w \in Worker, Slots!PostError(w)
      PROVE  SlotsAgree'
  BY <1>4 DEF Slots!PostError
<1>5. ASSUME NEW w \in Worker, NEW id \in Slots!ClientId, Slots!UpdateConnectFails(w, id)
      PROVE  SlotsAgree'
  BY <1>5 DEF Slots!UpdateConnectFails, Slots!CallDeregister, Slots!Drop
<1>6. ASSUME NEW w \in Worker, Slots!DeregisterAgain(w)
      PROVE  SlotsAgree'
  BY <1>6 DEF Slots!DeregisterAgain, Slots!CallDeregister
<1>7. ASSUME NEW id \in Slots!ClientId, Slots!registerClient(id)
      PROVE  SlotsAgree'
  BY <1>7 DEF Slots!registerClient, Slots!Request
<1>8. ASSUME NEW id \in Slots!ClientId, Slots!StartDeregister(id)
      PROVE  SlotsAgree'
  BY <1>8 DEF Slots!StartDeregister, Slots!Request, Slots!CallDeregister
<1>9. ASSUME NEW id \in Slots!ClientId, Slots!AddTest(id)
      PROVE  SlotsAgree'
  BY <1>9 DEF Slots!AddTest, Slots!Request
<1>10. CASE Slots!AddSong
  BY <1>10 DEF Slots!AddSong
<1>11. ASSUME NEW id \in Slots!ClientId, Slots!deleteFromQueue(id)
      PROVE  SlotsAgree'
  BY <1>11 DEF Slots!deleteFromQueue, Slots!Request
<1>12. CASE Slots!Refused
  BY <1>12 DEF Slots!Refused, Slots!Request
<1>13. CASE Slots!ServeAnswer
  BY <1>13 DEF Slots!ServeAnswer
<1>14. CASE Slots!SetAnswered
  BY <1>14 DEF Slots!SetAnswered
<1>15. CASE Slots!NotifyEnds
  BY <1>15 DEF Slots!NotifyEnds
<1>16. CASE Slots!NotifyConnectFails
  BY <1>16 DEF Slots!NotifyConnectFails, Slots!CallDeregister, Slots!Drop
<1>17. CASE Slots!RunState
  BY <1>17 DEF Slots!RunState, Slots!rmRunState
<1>18. CASE Slots!FindReady
  BY <1>18 DEF Slots!FindReady
<1>19. CASE Slots!SetPlaying
  BY <1>19 DEF Slots!SetPlaying
<1>20. CASE Slots!ActiveTest
  BY <1>20 DEF Slots!ActiveTest
<1>21. CASE Slots!SetActive
  BY <1>21 DEF Slots!SetActive
<1>22. ASSUME NEW id \in Slots!ClientId, Slots!callSchedular(id)
      PROVE  SlotsAgree'
  BY <1>22 DEF Slots!callSchedular
<1>23. CASE Slots!callSchedularNoClient
  BY <1>23 DEF Slots!callSchedularNoClient
<1> QED
  BY <1>1, <1>2, <1>3, <1>4, <1>5, <1>6, <1>7, <1>8, <1>9, <1>10, <1>11, <1>13, <1>15, <1>16,
     <1>17, <1>18, <1>19, <1>20, <1>21, <1>22, <1>23, <1>14, <1>12
  DEF Slots!DroppingNext, Slots!RmStep, Slots!WorkerStep

LEMMA DroppingStep == ASSUME SlotsInv, [Slots!DroppingNext]_(Slots!dropVars) PROVE SlotsInv'
<1>1. CASE Slots!DroppingNext
  <2>1. DroppingInv'
    BY <1>1, DroppingInvStep DEF SlotsInv
  <2>2. ~stale' => SlotsAgree'
    BY <1>1, SlotsStep
  <2> QED BY <2>1, <2>2 DEF SlotsInv
<1>2. CASE UNCHANGED Slots!dropVars
  <2>1. UNCHANGED <<Slots!Mismatch, Slots!InPlaying, Slots!AnswerServed, Slots!AwaitingDownload>>
    BY <1>2
    DEF Slots!dropVars, Slots!dbVars, Slots!rmVars, Slots!callVars, Slots!boundVars,
        Slots!AnswerServed, Slots!Mismatch, Slots!DownloadSlot, Slots!InPlaying,
        Slots!AwaitingDownload
  <2> QED BY <1>2, <2>1
     DEF Slots!dropVars, Slots!dbVars, Slots!rmVars, Slots!callVars, Slots!boundVars, SlotsInv,
         DroppingInv, Slots!DroppingTypeOK, WaitingBound, ThreadPlaces, OnePosts, ErrorDue, Machine,
         Slots!OneAnswerIsAwaited, SlotsAgree, DownloadHasSlot, PlayingHasSlot, ReadyIsExpected,
         FoundIsDownload, Different
<1> QED BY <1>1, <1>2

LEMMA SlotsSafe == Slots!DroppingSpec => []SlotsInv
  BY InitSlotsInv, DroppingStep, PTL DEF Slots!DroppingSpec

\* A download is awaited exactly while there is one that has not been answered, whichever
\* threads deregister which clients between the steps of the resource manager
\* (serverRoutine.c:234-239, resourceManager.c:353-376).
THEOREM OneAnswerAwaited == Slots!DroppingSpec => []OneAnswerIsAwaited
<1>1. SlotsInv => OneAnswerIsAwaited
  BY DEF OneAnswerIsAwaited, SlotsInv, DroppingInv, Machine
<1> QED BY SlotsSafe, <1>1, PTL

\* Until a worker clears a slot by a PL_READY that is no longer true, the slots agree with
\* the state machine and the answer to the download has its slot (clientdb.c:683-718).
THEOREM StaleClearsHurt == Slots!DroppingSpec => []OnlyStaleClearsHurt
<1>1. SlotsInv => OnlyStaleClearsHurt
  <2> SUFFICES ASSUME SlotsInv, ~stale PROVE OnlyStaleClearsHurt
    BY DEF OnlyStaleClearsHurt, Slots!OnlyStaleClearsHurt
  <2>1. SlotsAgree /\ scheduleIndex \in 0 .. 1
    BY DEF SlotsInv, DroppingInv, Slots!DroppingTypeOK, Slots!SlotIndex
  <2> QED BY <2>1
     DEF SlotsAgree, DownloadHasSlot, PlayingHasSlot, ReadyIsExpected, FoundIsDownload, Different,
         Slots!Mismatch, Slots!DownloadSlot, Slots!SlotIndex, OnlyStaleClearsHurt,
         Slots!OnlyStaleClearsHurt
<1> QED BY SlotsSafe, <1>1, PTL
==============================================================================
