------------------------------- MODULE Upload -------------------------------
(***************************************************************************)
(* DataTransfer: what each of its calls posts, and uploadDatas, which posts*)
(* it through libcurl. Several controllers upload at the same time, each   *)
(* with a DataTransfer of its own; they share libcurl's global state.      *)
(*                                                                         *)
(* A form is the name of its URL and the names of its parts, of which some *)
(* are there only for some values. Values are left out: they are copied as *)
(* they are. The heap is the set of the blocks that a DataTransfer has     *)
(* allocated and not freed, each with the number of the call.              *)
(*                                                                         *)
(* X_Variant, just before X, is X with a plausible slip; no specification  *)
(* uses it. It tells whether the properties notice the slip.               *)
(***************************************************************************)
EXTENDS Naturals, FiniteSets

CONSTANTS
  Caller,    \* the threads that upload
  Made,      \* the calls they make
  MaxCalls,  \* bound on the calls
  Nothing

ASSUME CallersAssumption == IsFiniteSet(Caller) /\ MaxCalls \in Nat

Form(url, params) == [url |-> url, params |-> params, some |-> {}]
Camera == {"groupId", "unitId", "camId"}
Electric == {"voltage", "current"}

StatusForms ==
  [uploadFocus |-> Form("updateFocusUrl", {"fbfId", "focus", "cameraId"}),
   uploadMountStatus |->
     Form("updateMountStatusUrl", {"groupId", "unitId", "utc", "state", "errcode",
                                   "ra", "dec", "objRa", "objDec"}),
   uploadCameraStatus |->
     Form("updateCameraStatusUrl",
          Camera \cup {"utc", "mcState", "focus", "coolget", "filter", "state",
                       "errcode", "imgType", "objName", "frmNo", "fileName"}),
   uploadObsCtlSysStatus |->
     Form("updateObsCtlSysStatusUrl",
          {"groupId", "unitId", "utc", "state", "opSn", "opTime"})]

DeviceForms ==
  [uploadTemperature |->
     Form("updateTemperatureUrl",
          Camera \cup Electric \cup {"thot", "coolget", "coolset", "time"}),
   uploadVacuum |->
     Form("updateVacuumUrl", Camera \cup Electric \cup {"pressure", "time"}),
   regOrigImage |->
     Form("regOrigImgUrl", Camera \cup {"gridId", "fieldId", "imgName", "imgPath",
                                        "genTime"})]

\* The calls that send a file; those that send a list of files, each of which is a part
\* "fileUpload" (none for an empty list); and the two that report results, of which
\* sendLogMsg has a msgType only for the types ERROR and STATE.
File(url) == Form(url, {"fileType", "fileUpload"})
FileList(url) == [url |-> url, params |-> {"fileType"}, some |-> {"fileUpload"}]
FileForms ==
  [sendOT1ListFile |-> File("ot1ListUrl"),
   sendOT2CutImage |-> FileList("sendOt2CutImageListUrl"),
   sendOT2CutImageRef |-> FileList("sendOt2CutImageListUrl"),
   sendImageQualityFile |-> File("imageQualityFileUrl"),
   sendFitsPreview |-> File("sendFitsPreviewUrl"),
   sendMagCalibrationFile |-> File("sendMagCalibrationUrl"),
   sendLookBackResult |-> Form("lookBackResultUrl", {"ot2name", "flag"}),
   sendLogMsg |-> [url |-> "sendLogMsgUrl",
                   params |-> {"logType", "msgCode", "msgDate", "msgContent"},
                   some |-> {"msgType"}]]

Call == DOMAIN StatusForms \cup DOMAIN DeviceForms \cup DOMAIN FileForms
FormOf(k) == IF k \in DOMAIN StatusForms THEN StatusForms[k]
             ELSE IF k \in DOMAIN DeviceForms THEN DeviceForms[k]
             ELSE FileForms[k]

ASSUME MadeAssumption == Made \subseteq Call

\* The addresses the constructor makes, two of which are never used.
Urls == {FormOf(k).url : k \in Call} \cup {"getOt2CutImageListUrl", "ot2TmplCutImageListUrl"}

\* The names of the parts of the forms a call posts.
Posted(k) == {FormOf(k).params \cup s : s \in SUBSET FormOf(k).some}

VARIABLES
  urls,    \* for each caller's DataTransfer, the addresses not NULL
  at,      \* where each caller is
  call,    \* the call it is in or was in last
  turn,    \* the number of that call
  heap,    \* the blocks allocated and not freed: the number of the call, or 0 for the
           \* constructor, and the name
  cut,     \* the calls that could not free all they had: their number, and why
  body,    \* what tmpChunk->memory holds
  inits,   \* calls of curl_global_init less those of curl_global_cleanup
  posted,  \* the names of the parts libcurl was given
  server,  \* the server's verdict on the request
  result,  \* what the last call returned
  status,  \* what it wrote to statusstr
  lost,    \* how often curl_global_cleanup was skipped
  calls

uploadVars == <<urls, at, call, turn, heap, cut, body, inits, posted, server, result, status,
          lost, calls>>

\* The constructor: each joinStr may fail to allocate. Without memory for tmpChunk
\* itself uploadDatas writes through a null pointer; that is left out.
Owned(c) == {0} \X (urls[c] \cup {"tmpChunk"})

UploadInit ==
  /\ urls \in [Caller -> {Urls, Urls \ {"updateTemperatureUrl"}}]
  /\ at = [c \in Caller |-> "idle"]
  /\ call = [c \in Caller |-> Nothing]
  /\ turn = [c \in Caller |-> 0]
  /\ heap = [c \in Caller |-> Owned(c)]
  /\ cut = [c \in Caller |-> {}]
  /\ body = [c \in Caller |-> "none"]
  /\ inits = 0 /\ lost = 0
  /\ posted = call /\ server = call /\ result = call /\ status = call
  /\ calls = 0

Return(c, code, text) ==
  /\ at' = [at EXCEPT ![c] = "idle"]
  /\ result' = [result EXCEPT ![c] = code]
  /\ status' = [status EXCEPT ![c] = text]

-----------------------------------------------------------------------------
\* The blocks of these names that belong to the caller's present call.
Own(c, names) == {turn[c]} \X names

\* uploadDatas up to malloc(1): a NULL address is refused. There is always a parameter.
Enter(c, k) ==
  /\ at[c] = "idle" /\ calls < MaxCalls
  /\ calls' = calls + 1
  /\ call' = [call EXCEPT ![c] = k]
  /\ turn' = [turn EXCEPT ![c] = calls']
  /\ posted' = [posted EXCEPT ![c] = Nothing]
  /\ server' = [server EXCEPT ![c] = Nothing]
  /\ IF FormOf(k).url \in urls[c]
       THEN /\ at' = [at EXCEPT ![c] = "init"]
            /\ heap' = [heap EXCEPT ![c] = @ \cup {<<calls', "memory">>}]
            /\ body' = [body EXCEPT ![c] = "unwritten"]
            /\ UNCHANGED <<result, status>>
       ELSE Return(c, "INPUT_EMPTY", "refused") /\ UNCHANGED <<heap, body>>
  /\ UNCHANGED <<urls, cut, inits, lost>>

\* curl_global_init and the form.
GlobalInit(c) ==
  /\ at[c] = "init"
  /\ inits' = inits + 1
  /\ heap' = [heap EXCEPT ![c] = @ \cup Own(c, {"formpost"})]
  /\ at' = [at EXCEPT ![c] = "session"]
  /\ UNCHANGED <<urls, call, turn, cut, body, posted, server, result, status, lost, calls>>

\* curl_easy_init; the header list is made before its result is looked at. Without a
\* session the call returns at once: what it allocated stays, nothing points to it any
\* more, and curl_global_cleanup is not called.
EasyInit(c) ==
  /\ at[c] = "session"
  /\ \/ /\ heap' = [heap EXCEPT ![c] =
                      @ \cup Own(c, {"headerlist", "session", "reqErrorBuf", "fullUrl"})]
        /\ \E names \in Posted(call[c]) : posted' = [posted EXCEPT ![c] = names]
        /\ at' = [at EXCEPT ![c] = "perform"]
        /\ UNCHANGED <<cut, result, status, lost>>
     \/ /\ heap' = [heap EXCEPT ![c] = @ \cup Own(c, {"headerlist"})]
        /\ cut' = [cut EXCEPT ![c] = @ \cup {<<turn[c], "no session">>}]
        /\ lost' = lost + 1
        /\ Return(c, "SEND_DATA_ERROR", "no session")
        /\ UNCHANGED posted
  /\ UNCHANGED <<urls, call, turn, body, inits, server, calls>>

\* WriteMemoryCallback, called by curl_easy_perform for each piece of the response.
\* When realloc fails, which leaves the block as it is, the pointer to it is
\* overwritten with NULL; libcurl ends the transfer.
Piece(c) ==
  /\ at[c] = "perform" /\ body[c] \in {"unwritten", "text"}
  /\ \/ body' = [body EXCEPT ![c] = "text"] /\ UNCHANGED cut
     \/ /\ body' = [body EXCEPT ![c] = "null"]
        /\ cut' = [cut EXCEPT ![c] = @ \cup {<<turn[c], "no memory">>}]
  /\ UNCHANGED <<urls, at, call, turn, heap, inits, posted, server, result, status, lost,
       calls>>

\* curl_easy_perform returns: transferred, with the server's code, or failed, when
\* the server may have accepted it or not.
Performed(c) ==
  /\ at[c] = "perform"
  /\ \E accepted \in BOOLEAN, transferred \in BOOLEAN :
       /\ body[c] = "null" => ~transferred
       /\ server' = [server EXCEPT ![c] = [accepted |-> accepted, heard |-> transferred]]
  /\ at' = [at EXCEPT ![c] = "verdict"]
  /\ UNCHANGED <<urls, call, turn, heap, cut, body, inits, posted, result, status, lost,
       calls>>

\* The result code and the text, from the response; then all is freed that a pointer
\* leads to. Of an empty response the text is the one byte that malloc gave, and what
\* follows it.
Verdict(s) == IF s.heard /\ s.accepted THEN "SUCCESS" ELSE "SEND_DATA_ERROR"

AllBlocks == {"fullUrl", "reqErrorBuf", "session", "formpost", "headerlist", "memory"}
Freed_NoForm(text) == AllBlocks \ {"formpost"}
Freed(text) == IF text = "null" THEN AllBlocks \ {"memory"} ELSE AllBlocks

cleanup_Forgotten(n) == n
cleanup(n) == n - 1

Finish(c) ==
  /\ at[c] = "verdict"
  /\ Return(c, Verdict(server[c]),
            IF Verdict(server[c]) = "SUCCESS" THEN body[c] ELSE "error text")
  /\ heap' = [heap EXCEPT ![c] = @ \ Own(c, Freed(body[c]))]
  /\ body' = [body EXCEPT ![c] = "none"]
  /\ inits' = cleanup(inits)
  /\ UNCHANGED <<urls, call, turn, cut, posted, server, lost, calls>>

\* The destructor frees the addresses and tmpChunk.
Destroy(c) ==
  /\ at[c] = "idle"
  /\ at' = [at EXCEPT ![c] = "destroyed"]
  /\ heap' = [heap EXCEPT ![c] = @ \ Owned(c)]
  /\ UNCHANGED <<urls, call, turn, cut, body, inits, posted, server, result, status, lost,
       calls>>

UploadNext ==
  \E c \in Caller :
    \/ \E k \in Made : Enter(c, k)
    \/ GlobalInit(c) \/ EasyInit(c) \/ Piece(c) \/ Performed(c) \/ Finish(c)
    \/ Destroy(c)

UploadSpec == UploadInit /\ [][UploadNext]_uploadVars
-----------------------------------------------------------------------------
Session == {"session", "perform", "verdict"}

\* What a call that could not free all leaves allocated for ever.
Left(x) == {x[1]} \X (IF x[2] = "no session" THEN {"memory", "formpost", "headerlist"}
                      ELSE {"memory"})
Leaked(c) == UNION {Left(x) : x \in cut[c]}

\* Between two calls a DataTransfer has allocated what its constructor made and, for each
\* call that got no session or no memory for the answer, the blocks that these two paths
\* leave, and nothing else, whatever the server and libcurl answered, in which order; the
\* destructor gives back the first (uploadDatas, WriteMemoryCallback, ~DataTransfer).
ReturnsClean ==
  \A c \in Caller :
    /\ at[c] = "idle" => heap[c] = Owned(c) \cup Leaked(c)
    /\ at[c] = "destroyed" => heap[c] = Leaked(c)

\* libcurl is initialised while anybody has a session, whoever else starts and
\* finishes: the calls of curl_global_init and cleanup pair, but for those lost.
GlobalHeld ==
  /\ inits = lost + Cardinality({c \in Caller : at[c] \in Session})
  /\ \A c \in Caller : at[c] \in Session => inits > 0

\* The strengthening of ReturnsClean: what a call holds from place to place, and that
\* those cut short are past, or the present one after it lost its memory.
InUse(c) == CASE at[c] = "init" -> {"memory"}
              [] at[c] = "session" -> {"memory", "formpost"}
              [] at[c] \in {"perform", "verdict"} -> AllBlocks
              [] OTHER -> {}

HeldInv ==
  \A c \in Caller :
    /\ heap[c] = (IF at[c] = "destroyed" THEN {} ELSE Owned(c))
                 \cup Leaked(c) \cup Own(c, InUse(c))
    /\ 0 < turn[c] \/ at[c] \in {"idle", "destroyed"}
    /\ turn[c] <= calls
    /\ body[c] = "null" => /\ at[c] \in {"perform", "verdict"}
                           /\ <<turn[c], "no memory">> \in cut[c]
    /\ \A x \in cut[c] :
         /\ x[1] \in 1..calls /\ x[2] \in {"no session", "no memory"}
         /\ at[c] \in {"init", "session"} => x[1] # turn[c]
         /\ at[c] \in {"perform", "verdict"} /\ x[1] = turn[c]
              => x[2] = "no memory" /\ body[c] = "null"
=============================================================================
