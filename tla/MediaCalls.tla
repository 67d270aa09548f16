----------------------------- MODULE MediaCalls -----------------------------
(***************************************************************************)
(* Media calls: speech, transcription, images, search, embeddings, and     *)
(* video jobs that are created by one call and read by later ones.         *)
(*                                                                         *)
(* A call chooses an account (prepareForCall, preparePinned), builds the   *)
(* request its vendor expects, and Perform asks, reads the answer and      *)
(* accounts for it: the health of the account and the usage row.  A vendor *)
(* may fail inside a 200, so what the reader of a format makes of the body *)
(* decides both.  A job lives on the account that created it; its id goes  *)
(* out to the client in a form of the vendor's plan and comes back in a    *)
(* poll, perhaps with that account.                                        *)
(***************************************************************************)
EXTENDS Naturals, Sequences, FiniteSets, TLC

CONSTANTS
  Accounts,    \* of the provider that is called, each with one credential
  Vendors,     \* video dialects a client may use
  Nobody,      \* no account
  MaxCalls,    \* bound: calls of the client
  MaxFaults    \* bound: stores that fail while a call is accounted for

VARIABLES
  off,     \* accounts the operator disabled
  parked,  \* accounts whose credential rests
  jobs,    \* jobs the vendor holds: [vendor, on, state]
  held,    \* what creations answered the client: [vendor, task, at]
  call,    \* the call under way, or Idle
  last,    \* the call that just ended, as client, row and store saw it
  calls, faults

vars == <<off, parked, jobs, held, call, last, calls, faults>>

MediaCallsAssumption ==
  /\ Nobody \notin Accounts /\ Vendors \subseteq {"xai", "agnes", "openrouter", "tokenrouter", "vertex"}
  /\ MaxCalls \in Nat /\ MaxFaults \in Nat

Idle == [route |-> "idle"]
NoTask == [form |-> "none", id |-> 0]

-----------------------------------------------------------------------------
(* Speech and transcription: what is asked of a vendor, and what a reader   *)
(* makes of the body of a 200.                                             *)

\* mediaFormatSupported; "" is the route's own shape.
Formats ==
  [speech |-> {"", "nvidia-tts", "cartesia", "elevenlabs", "minimax-tts", "inworld", "playht",
               "coqui", "tortoise", "gemini-tts"},
   transcription |-> {"", "deepgram", "gemini-stt"},
   image |-> {""}, search |-> {""}, embeddings |-> {"", "gemini-embedding"}]

\* The audio a request asks its vendor for; "" leaves it to the vendor.
SpeechRequest(format, wish) ==
  CASE format \in {"cartesia", "minimax-tts", "inworld", "playht"} -> "mp3"
    [] format \in {"nvidia-tts", "elevenlabs", "coqui", "tortoise"} -> ""
    [] format = "gemini-tts" -> "pcm"
    [] OTHER -> wish
\* What a vendor (external) sends when it is asked for nothing.
OwnAudio(format) == IF format \in {"nvidia-tts", "coqui", "tortoise"} THEN "wav" ELSE "mp3"
\* pcmToWAV puts what gemini sends into a container.
AudioSent(format, wish) ==
  LET asked == SpeechRequest(format, wish)
  IN  CASE asked = "" -> OwnAudio(format) [] asked = "pcm" /\ format = "gemini-tts" -> "wav" [] OTHER -> asked
\* SpeechOutputFormat, SpeechFormat
SpeechOutputFormat(format, wish) ==
  CASE format \in {"nvidia-tts", "coqui", "tortoise", "gemini-tts"} -> "wav"
    [] format \in {"cartesia", "elevenlabs", "minimax-tts", "inworld", "playht"} -> "mp3"
    [] OTHER -> IF wish = "" THEN "mp3" ELSE wish

\* What a 200 may carry: the asset; nothing; no JSON; JSON without the asset; the vendor's
\* own refusal; an asset that cannot be decoded.
Bodies == {"full", "empty", "garbage", "hollow", "refusal", "scrambled"}
NotJSON == {"empty", "garbage"}

\* Audio in hexadecimal, beside the vendor's own status.
MinimaxSpeechAnswer(body) ==
  CASE body \in NotJSON -> "internal"
    [] body \in {"refusal", "scrambled", "hollow"} -> "rejected"
    [] OTHER -> "ok"
\* Audio in base64; a refusal has none.
InworldSpeechAnswer(body) ==
  IF body \in NotJSON THEN "internal" ELSE IF body = "full" THEN "ok" ELSE "rejected"
\* The first part of the first candidate that has data.
GeminiSpeechAnswer(body) ==
  CASE body \in NotJSON -> "internal" [] body = "full" -> "ok" [] OTHER -> "rejected"
RequireSpeechAudio(body) == IF body = "empty" THEN "rejected" ELSE "ok"
SpeechReader(format, body) ==
  CASE format = "minimax-tts" -> MinimaxSpeechAnswer(body)
    [] format = "inworld" -> InworldSpeechAnswer(body)
    [] format = "gemini-tts" -> GeminiSpeechAnswer(body)
    [] format \in {"elevenlabs", "playht", "coqui", "tortoise"} -> RequireSpeechAudio(body)
    [] OTHER -> "ok"

\* A document is read for its text, which may be none.
DeepgramTranscriptionAnswer(body) == IF body \in NotJSON THEN "internal" ELSE "ok"
GeminiTranscriptionAnswer(body) == IF body \in NotJSON THEN "internal" ELSE "ok"
TranscriptionReader(format, body) ==
  CASE format = "deepgram" -> DeepgramTranscriptionAnswer(body)
    [] format = "gemini-stt" -> GeminiTranscriptionAnswer(body)
    [] OTHER -> "ok"

-----------------------------------------------------------------------------
(* Images, search and embeddings: read once the call is accounted for.     *)

NormalizeGeneration(body) == IF body \in NotJSON THEN "internal" ELSE "ok"
NormalizeSearchResults(body) == IF body \in NotJSON THEN "internal" ELSE "ok"

\* What a request embeds: one content of the text, or one request for each of several.
EmbeddingsBody(format, texts) ==
  IF format = "gemini-embedding" /\ Len(texts) > 1
  THEN [batch |-> TRUE, contents |-> texts] ELSE [batch |-> FALSE, contents |-> texts]
\* A vendor (external) embeds each content; a full answer holds them in order.
Embedded(request, body) == IF body = "full" THEN request.contents ELSE <<>>
\* Whatever cannot be read is read as the other shape, and then as no vector at all.
NormalizeEmbeddings(request, body) ==
  LET vectors == Embedded(request, body)
  IN  [i \in DOMAIN vectors |-> [index |-> i - 1, of |-> vectors[i]]]

-----------------------------------------------------------------------------
(* Video: the words of each vendor, the id of a job, and the job read.     *)

XAIStatuses == [pending |-> "queued", processing |-> "in_progress", done |-> "succeeded", failed |-> "failed"]
AgnesStatuses == [queued |-> "queued", in_progress |-> "in_progress", processing |-> "in_progress",
                  completed |-> "succeeded", failed |-> "failed"]
OpenRouterStatuses == [pending |-> "queued", completed |-> "succeeded", failed |-> "failed"]
TokenRouterStatuses == [queued |-> "queued", submitted |-> "queued", in_progress |-> "in_progress",
                        success |-> "succeeded", failure |-> "failed"]

Lower(word) ==
  LET capitals == [QUEUED |-> "queued", SUBMITTED |-> "submitted", IN_PROGRESS |-> "in_progress",
                   SUCCESS |-> "success", FAILURE |-> "failure"]
  IN  IF word \in DOMAIN capitals THEN capitals[word] ELSE word
\* A word no vendor documents passes through.
CanonicalVideoStatus(word, known) ==
  IF Lower(word) \in DOMAIN known THEN known[Lower(word)] ELSE Lower(word)

\* The id a client gets is the job's own, or a code of it.
AgnesTaskID(n) == [form |-> "agnes", id |-> n]
EncodeVertexJobID(n) == [form |-> "vertex", id |-> n]
\* What is asked of the vendor: 0 stands for an id that names no job there.
SplitAgnesTaskID(task) == IF task.form \in {"agnes", "plain"} THEN task.id ELSE 0
DecodeVertexJobID(task) == IF task.form = "vertex" THEN task.id ELSE 0
VideoTaskURL(task) == IF task.form = "plain" THEN task.id ELSE 0
\* Faulty variant: every dialect is asked as most are.
PollRequestPlain(vendor, task) == VideoTaskURL(task)
PollRequest(vendor, task) ==
  CASE vendor = "agnes" -> SplitAgnesTaskID(task)
    [] vendor = "vertex" -> DecodeVertexJobID(task)
    [] OTHER -> VideoTaskURL(task)

\* A creation names its job, a poll its state.
FinishVideoJob(job, creating) ==
  CASE creating /\ job.task = NoTask -> [job EXCEPT !.verdict = "rejected"]
    [] creating /\ job.status = "" -> [job EXCEPT !.status = "queued"]
    [] ~creating /\ job.status = "" -> [job EXCEPT !.verdict = "rejected"]
    [] OTHER -> job

Unreadable == [verdict |-> "internal", task |-> NoTask, status |-> ""]
\* doc: [json, id, word]; xAI, OpenRouter and TokenRouter name the job by its own id.
ReadPlainVideoJob(doc, known, creating) ==
  IF ~doc.json THEN Unreadable
  ELSE FinishVideoJob([verdict |-> "ok", status |-> CanonicalVideoStatus(doc.word, known),
                       task |-> IF doc.id = 0 THEN NoTask ELSE [form |-> "plain", id |-> doc.id]], creating)
ReadAgnesVideoJob(doc, creating) ==
  IF ~doc.json THEN Unreadable
  ELSE FinishVideoJob([verdict |-> "ok", status |-> CanonicalVideoStatus(doc.word, AgnesStatuses),
                       task |-> IF creating /\ doc.id # 0 THEN AgnesTaskID(doc.id) ELSE NoTask], creating)
\* A vertex document has an error, or is done, or neither.
ReadVertexVideoJob(doc, creating) ==
  CASE ~doc.json -> Unreadable
    [] doc.id = 0 -> [Unreadable EXCEPT !.verdict = "rejected"]
    [] OTHER -> FinishVideoJob(
                  [verdict |-> "ok", task |-> EncodeVertexJobID(doc.id),
                   status |-> IF doc.word = "error" THEN "failed"
                              ELSE IF doc.word = "done" THEN "succeeded" ELSE "queued"], creating)
VideoPlanRead(vendor, doc, creating) ==
  CASE vendor = "agnes" -> ReadAgnesVideoJob(doc, creating)
    [] vendor = "vertex" -> ReadVertexVideoJob(doc, creating)
    [] vendor = "openrouter" -> ReadPlainVideoJob(doc, OpenRouterStatuses, creating)
    [] vendor = "tokenrouter" -> ReadPlainVideoJob(doc, TokenRouterStatuses, creating)
    [] OTHER -> ReadPlainVideoJob(doc, XAIStatuses, creating)

\* What a vendor (external) writes of a job: whichever of its words fit the state.
Words(vendor) ==
  CASE vendor = "xai" ->
         [queued |-> {"", "pending"}, running |-> {"processing"}, done |-> {"done"}, failed |-> {"failed"}]
    [] vendor = "agnes" ->
         [queued |-> {"", "queued"}, running |-> {"in_progress", "processing"},
          done |-> {"completed"}, failed |-> {"failed"}]
    [] vendor = "openrouter" ->
         [queued |-> {"", "pending"}, running |-> {"in_progress"}, done |-> {"completed"}, failed |-> {"failed"}]
    [] vendor = "tokenrouter" ->
         [queued |-> {"", "SUBMITTED", "QUEUED"}, running |-> {"IN_PROGRESS"},
          done |-> {"SUCCESS"}, failed |-> {"FAILURE"}]
    [] OTHER -> [queued |-> {""}, running |-> {""}, done |-> {"done"}, failed |-> {"error"}]
\* A poll of xAI does not repeat the id.
Documents(vendor, state, n, creating) ==
  {[json |-> TRUE, id |-> IF creating \/ vendor # "xai" THEN n ELSE 0, word |-> w] : w \in Words(vendor)[state]}
Broken == {[json |-> FALSE, id |-> 0, word |-> ""], [json |-> TRUE, id |-> 0, word |-> ""]}

-----------------------------------------------------------------------------
(* What a failure says of the credential.                                  *)

FailureClass(status) ==
  CASE status \in {401, 403} -> "auth" [] status = 402 -> "billing" [] status = 429 -> "rate_limit"
    [] status = 404 -> "target" [] status \in 400..499 -> "request" [] OTHER -> "transient"
ImplicatesCredential(class) == class \in {"auth", "billing", "rate_limit", "transient"}
\* MediaCall.SkipHealth: asking for a job says nothing of a credential.
SkipsHealth(route) == route = "poll"

-----------------------------------------------------------------------------
Init ==
  /\ off = {} /\ parked = {} /\ jobs = <<>> /\ held = <<>> /\ call = Idle
  /\ last = Idle /\ calls = 0 /\ faults = 0

\* route, format; option: what a request may bring, a voice, an image the dialect can carry, a
\* second text to embed; task and pin: the job polled and the account named with it.
Asking(route, format, option) ==
  [route |-> route, format |-> format, option |-> option, task |-> NoTask, pin |-> Nobody, on |-> Nobody]

\* A call that ended before it was sent, with the log row it left.
Refuse(asked, row) ==
  /\ last' = [route |-> asked.route, sent |-> FALSE, reply |-> "error", row |-> row, wrote |-> "none"]
  /\ calls' = calls + 1
  /\ UNCHANGED <<off, parked, jobs, held, call, faults>>

\* Select; SelectEndpoint, when a poll names the account of its job.
SelectForPoll(asked) ==
  {a \in Accounts \ (off \union parked) : asked.pin = Nobody \/ a = asked.pin}

\* ElevenLabs addresses a voice, vertex sends an image its body can carry, and polls an operation.
Builds(asked) ==
  CASE asked.format = "elevenlabs" -> asked.option
    [] asked.route = "create" /\ asked.format = "vertex" -> asked.option
    [] asked.route = "poll" /\ asked.format = "vertex" -> DecodeVertexJobID(asked.task) # 0
    [] OTHER -> TRUE

\* prepareForCall, preparePinned: the target, an account, its credential, then the request.  A
\* target that cannot be resolved or a credential that cannot be minted leaves a log row, a
\* request that cannot be built leaves none.
Prepare(asked) ==
  /\ call = Idle /\ calls < MaxCalls
  /\ \/ Refuse(asked, "refused")
     \/ SelectForPoll(asked) # {} /\ ~Builds(asked) /\ Refuse(asked, "none")
     \/ /\ Builds(asked)
        /\ \E a \in SelectForPoll(asked) : call' = [asked EXCEPT !.on = a]
        /\ calls' = calls + 1 /\ last' = Idle
        /\ UNCHANGED <<off, parked, jobs, held, faults>>

Speech(format, voice) == Prepare(Asking("speech", format, voice))
Transcribe(format) == Prepare(Asking("transcription", format, FALSE))
GenerateImage == Prepare(Asking("image", "", FALSE))
Search == Prepare(Asking("search", "", FALSE))
Embed(format, several) == Prepare(Asking("embeddings", format, several))
GenerateVideoJob(vendor, image) == Prepare(Asking("create", vendor, image))
\* An id a creation answered, or one the vendor does not know; with its account or without.
PollVideoJob(h, pinned, stale) ==
  Prepare([Asking("poll", held[h].vendor, FALSE) EXCEPT
             !.task = IF stale THEN [held[h].task EXCEPT !.id = 0] ELSE held[h].task,
             !.pin = IF pinned THEN held[h].at ELSE Nobody])

-----------------------------------------------------------------------------
\* A success is written before the client is answered, and reported when it cannot be; the
\* failure of a write about a failure is not.
Served(verdict, wrote, stored) == verdict = "ok" /\ (wrote = "none" \/ stored)
RecordHealth(wrote, stored) ==
  parked' = IF ~stored \/ wrote = "none" THEN parked
            ELSE IF wrote = "success" THEN parked \ {call.on}
            ELSE IF ImplicatesCredential(wrote) THEN parked \union {call.on} ELSE parked
Row(served) == IF served THEN "success" ELSE "error"

\* verdict is what the caller or the reader made of the answer, after it what the route does
\* with the answer once it is accounted for.
Perform(verdict, class, after, stored, answer) ==
  LET wrote  == IF SkipsHealth(call.route) THEN "none"
                ELSE IF verdict = "ok" THEN "success" ELSE class
      served == Served(verdict, wrote, stored)
  IN  /\ call # Idle
      /\ stored \/ (faults < MaxFaults /\ wrote # "none")
      /\ RecordHealth(wrote, stored)
      /\ faults' = IF stored THEN faults ELSE faults + 1
      /\ last' = [route |-> call.route, sent |-> TRUE, on |-> call.on, format |-> call.format,
                  option |-> call.option, pin |-> call.pin, task |-> call.task, wrote |-> wrote,
                  row |-> Row(served),
                  reply |-> IF served /\ after = "ok" THEN "ok" ELSE "error"] @@ answer
      /\ call' = Idle
      /\ UNCHANGED <<off, calls>>

Nothing == [body |-> "none", truth |-> FALSE, status |-> "", state |-> "", names |-> NoTask]

\* No answer, or a status that is not 2xx.
Unreachable(stored) ==
  Perform("unreachable", "target", "ok", stored, Nothing) /\ UNCHANGED <<jobs, held>>
Rejects(status, stored) ==
  Perform("rejected", FailureClass(status), "ok", stored, [Nothing EXCEPT !.state = "refused"])
  /\ UNCHANGED <<jobs, held>>

Hears(body, verdict, after, stored) ==
  Perform(verdict, "target", after, stored, [Nothing EXCEPT !.body = body]) /\ UNCHANGED <<jobs, held>>
\* EmbeddingsService.perform has no reader: a 200 is a success.
Embeds(body, stored) == call.route = "embeddings" /\ Hears(body, "ok", "ok", stored)
Answers(body, stored) ==
  \/ call.route = "speech" /\ Hears(body, SpeechReader(call.format, body), "ok", stored)
  \/ call.route = "transcription" /\ Hears(body, TranscriptionReader(call.format, body), "ok", stored)
  \/ call.route = "image" /\ Hears(body, "ok", NormalizeGeneration(body), stored)
  \/ call.route = "search" /\ Hears(body, "ok", NormalizeSearchResults(body), stored)
  \/ Embeds(body, stored)

\* The vendor takes a job; the client may learn its id.
Creates(doc, stored) ==
  LET read == VideoPlanRead(call.format, doc, TRUE)
  IN  /\ jobs' = Append(jobs, [vendor |-> call.format, on |-> call.on, state |-> "queued"])
      /\ Perform(read.verdict, "target", "ok", stored,
                 [Nothing EXCEPT !.truth = doc \notin Broken, !.status = read.status, !.names = read.task])
      /\ held' = IF read.verdict = "ok" /\ stored
                 THEN Append(held, [vendor |-> call.format, task |-> read.task, at |-> call.on]) ELSE held

\* The vendor knows a job by its id and the account it is asked on.
JobOf(asked) ==
  {n \in DOMAIN jobs : n = PollRequest(asked.format, asked.task) /\ jobs[n].vendor = asked.format
                       /\ jobs[n].on = asked.on}
\* PollVideoJob: an answer without an id keeps the one asked for.
Told(doc, truth, state) ==
  LET read == VideoPlanRead(call.format, doc, FALSE)
  IN  Perform(read.verdict, "target", "ok", TRUE,
              [Nothing EXCEPT !.truth = truth, !.status = read.status, !.state = state,
                              !.names = IF read.task = NoTask THEN call.task ELSE read.task])
Tells ==
  /\ call.route = "poll"
  /\ \/ \E n \in JobOf(call) : \E doc \in Documents(call.format, jobs[n].state, n, FALSE) :
          Told(doc, doc.word # "" \/ call.format = "vertex", jobs[n].state)
     \/ \E doc \in Broken : Told(doc, FALSE, "")
  /\ UNCHANGED <<jobs, held>>
Forgets == /\ call.route = "poll" /\ JobOf(call) = {}
           /\ Perform("rejected", FailureClass(404), "ok", TRUE, [Nothing EXCEPT !.state = "unknown"])
           /\ UNCHANGED <<jobs, held>>

-----------------------------------------------------------------------------
\* Around the calls: jobs go on, rests end, the operator switches accounts, each where the
\* next step of a call can tell: a job while it is polled, an account while none is called.
JobMoves(n) ==
  /\ call.route = "poll" /\ jobs[n].state \in {"queued", "running"}
  /\ \E s \in IF jobs[n].state = "queued" THEN {"running"} ELSE {"done", "failed"} :
       jobs' = [jobs EXCEPT ![n].state = s]
  /\ last' = Idle /\ UNCHANGED <<off, parked, held, call, calls, faults>>
Heal(a) == /\ a \in parked /\ call = Idle /\ parked' = parked \ {a} /\ last' = Idle
           /\ UNCHANGED <<off, jobs, held, call, calls, faults>>
Switch(a) == /\ call = Idle /\ off' = IF a \in off THEN off \ {a} ELSE off \union {a}
             /\ last' = Idle /\ UNCHANGED <<parked, jobs, held, call, calls, faults>>

Next ==
  \/ \E f \in Formats.speech, voice \in BOOLEAN : Speech(f, voice)
  \/ \E f \in Formats.transcription : Transcribe(f)
  \/ GenerateImage
  \/ Search
  \/ \E f \in Formats.embeddings, several \in BOOLEAN : Embed(f, several)
  \/ \E v \in Vendors, image \in BOOLEAN : GenerateVideoJob(v, image)
  \/ \E h \in DOMAIN held, pinned, stale \in BOOLEAN : PollVideoJob(h, pinned, stale)
  \/ \E stored \in BOOLEAN :
       \/ Unreachable(stored)
       \/ \E status \in {400, 401, 402, 404, 429, 500} : Rejects(status, stored)
       \/ \E body \in Bodies : Answers(body, stored)
       \/ /\ call.route = "create"
          /\ \E doc \in Documents(call.format, "queued", Len(jobs) + 1, TRUE) \union Broken : Creates(doc, stored)
  \/ Tells
  \/ Forgets
  \/ \E n \in DOMAIN jobs : JobMoves(n)
  \/ \E a \in Accounts : Heal(a) \/ Switch(a)

Spec == Init /\ [][Next]_vars

-----------------------------------------------------------------------------
Done == last # Idle
Called == Done /\ last.sent
AnswerLost == /\ last.route \in {"image", "search"} /\ last.body \in NotJSON

\* The usage row says what the client was told, but for the two routes that read the answer
\* after it was accounted for; a call that was not sent judges nobody.
RowTellsAnswer ==
  Done => /\ last.row = "success" <=> last.reply = "ok" \/ (Called /\ last.row # "error" /\ AnswerLost)
          /\ ~last.sent => last.row \in {"refused", "none"} /\ last.wrote = "none"

\* A credential is judged once by every call that was sent, a poll apart, and rests only for a
\* refusal of its vendor; whatever a 200 says, it is not the credential's fault.
JudgedByItsAnswer ==
  Called => IF last.route = "poll" THEN last.wrote = "none"
            ELSE /\ last.wrote # "none"
                 /\ ImplicatesCredential(last.wrote) => last.state = "refused"
                 /\ last.reply = "ok" => last.wrote = "success"

\* A poll that names the account of its job asks that account, and reads the job it was made
\* for: a proper answer is passed on under the id the client holds, finished only when the job is.
PollReadsItsJob ==
  Called /\ last.route = "poll" =>
    /\ last.pin # Nobody => last.on = last.pin
    /\ last.pin # Nobody /\ last.task.id # 0 => last.state # "unknown"
    /\ (last.reply = "ok") = last.truth
    /\ last.truth => /\ last.names = last.task
                     /\ last.on = jobs[last.task.id].on
                     /\ (last.status = "succeeded") = (last.state = "done")
                     /\ (last.status = "failed") = (last.state = "failed")

\* Whoever is answered has something to use: audio in the container it is labelled with, a
\* document, a vector for each text in its place, a job that waits under an id to poll; a failure
\* inside a 200 is a failure wherever the format can tell.
AnsweredWithAsset ==
  Called /\ last.reply = "ok" /\ last.route # "poll" =>
    CASE last.route = "create" -> last.truth /\ last.status = "queued"
      [] last.route = "speech" ->
           /\ last.format \in {"minimax-tts", "inworld", "gemini-tts"} => last.body = "full"
           /\ last.body = "empty" => last.format \in {"", "nvidia-tts", "cartesia"}
           /\ \A wish \in {"", "mp3", "wav"} :
                AudioSent(last.format, wish) = SpeechOutputFormat(last.format, wish)
      [] last.route = "embeddings" ->
           LET texts   == IF last.option THEN <<"first", "second">> ELSE <<"first">>
               vectors == NormalizeEmbeddings(EmbeddingsBody(last.format, texts), last.body)
           IN  last.body = "full" =>
                 vectors = [i \in DOMAIN texts |-> [index |-> i - 1, of |-> texts[i]]]
      [] last.format \in {"deepgram", "gemini-stt"} \/ last.route \in {"image", "search"} -> last.body \notin NotJSON
      [] OTHER -> TRUE

MediaSound == AnsweredWithAsset /\ RowTellsAnswer /\ JudgedByItsAnswer /\ PollReadsItsJob
=============================================================================
