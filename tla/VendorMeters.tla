---------------------------- MODULE VendorMeters ----------------------------
(***************************************************************************)
(* Reading a vendor's own quota (service/quotafetch): the surfaces each    *)
(* family is asked, in order, what a refusal of one of them means, and the *)
(* windows each answer is read as.  The vendor is the environment: it      *)
(* knows what the account used and states it in its own shape, counting    *)
(* what was used or what is left, in units, percent or fractions.          *)
(***************************************************************************)
EXTENDS Integers, Sequences, FiniteSets, SequencesExt, TLC

CONSTANTS
  Families,
  Full,         \* what a meter holds when nothing of it was used
  Uses          \* by family, how much of a meter may be used, more than it holds included

VendorMetersAssumption ==
  /\ Full \in Nat \ {0} /\ 100 % Full = 0
  /\ \A f \in Families : Uses[f] \subseteq Nat

VARIABLES
  family,
  account,   \* how its vendor states it, and what each of its meters counts
  asked,     \* the surfaces asked so far, each with what came back
  result

meterVars == <<family, account, asked, result>>

\* 2xx, 2xx that is not the document, 401 or 403, 429, 404 or 405, another 4xx, 5xx, no answer;
\* of MiniMax "denied" also stands for a body, under any status, that names a dead key, and
\* "declined" for a 200 whose envelope states a failure, as for CodeBuddy.
Statuses == {"ok", "unreadable", "denied", "throttled", "missing", "refused", "outage", "lost"}
\* Of a surface whose failure is tolerated only that it failed matters.
Bootstrap == {"assist", "user", "summary"}
Replies(surface) ==
  IF surface \in Bootstrap THEN {"ok", "unreadable", "lost"}
  ELSE IF family \in {"minimax", "codebuddy"} THEN Statuses \union {"declined"}
  ELSE Statuses
TransientStatus(status) == status \in {"throttled", "outage", "lost"}
SoftFamilies == {"opencode", "qoder", "codebuddy"}

Names(f) ==
  CASE f = "claude" -> {"session", "weekly", "opus"}
    [] f = "minimax" -> {"session", "weekly"}
    [] f = "commandcode" -> {"credits", "session", "weekly"}
    [] f = "codebuddy" -> {"daily", "monthly", "other", "bonus", "extra"}
    [] f = "deepseek" -> {"usd", "cny"}
    [] f = "github" -> {"chat", "completions", "premium"}
    [] f = "glm" -> {"session", "weekly", "other"}
    [] f = "groq" -> {"requests", "tokens"}
    [] f = "kimi" -> {"weekly", "rate"}
    [] f = "opencode" -> {"rolling", "weekly", "monthly"}
    [] f = "qoder" -> {"personal", "organization"}
    [] f = "zed" -> {"edits", "models"}
    [] f = "gemini" -> {"flash", "pro"}
    [] f = "antigravity" -> {"flash", "opus", "gemini session", "gemini weekly",
                             "claude session", "claude weekly"}
    [] f = "grok" -> {"monthly", "ondemand", "prepaid", "weekly"}

\* The shapes one family's answer comes in.
Styles(f) ==
  CASE f = "claude" -> {"fields", "scoped", "both"}
    [] f = "minimax" -> {"counts", "percent"}
    [] f = "commandcode" -> {"capped", "uncapped"}
    [] f = "codebuddy" -> {"in order", "reversed"}
    [] f = "deepseek" -> {"snake", "camel"}
    [] f = "github" -> {"paid", "free"}
    [] f = "glm" -> {"tokens", "credits"}
    [] f = "kimi" -> {"used", "remaining"}
    [] f = "qoder" -> {"token", "pat"}
    [] f = "zed" -> {"number", "unlimited", "tokens"}
    [] f = "gemini" -> {"stored", "asked"}
    [] f = "antigravity" -> {"paid", "free"}
    [] f = "grok" -> {"subscribed", "free", "frame"}
    [] OTHER -> {"plain"}

\* A wallet always states its credits, a free Copilot account both its quotas, a summary its
\* weekly windows, and a Grok account whose billing states nothing its weekly share alone.
Always(f, style) ==
  CASE f = "commandcode" -> {"credits"}
    [] f = "github" /\ style = "free" -> {"chat", "completions"}
    [] f = "antigravity" -> {"gemini weekly", "claude weekly"}
    [] OTHER -> {}
Never(f, style) ==
  CASE f = "github" /\ style = "free" -> {"premium"}
    [] f = "grok" /\ style = "frame" -> {"monthly", "ondemand", "prepaid"}
    [] OTHER -> {}
Accounts(f) ==
  {[style |-> style, meters |-> meters] :
     style \in Styles(f), meters \in UNION {[names -> Uses[f]] : names \in SUBSET Names(f)}}
Proper(f, a) == Always(f, a.style) \subseteq DOMAIN a.meters /\ Never(f, a.style) \intersect DOMAIN a.meters = {}

Stated(name) == name \in DOMAIN account.meters
Used(name) == account.meters[name]
Opt(name, value(_)) == IF Stated(name) THEN <<value(Used(name))>> ELSE <<>>
AtLeast(floor, n) == IF n < floor THEN floor ELSE n
AtMost(ceiling, n) == IF n > ceiling THEN ceiling ELSE n
Percent(used) == (100 * used) \div Full
Left(used) == Full - used

Row(label, used, total) == [label |-> label, used |-> used, total |-> total, unlimited |-> FALSE]
Unlimited(label, used, total) == [Row(label, used, total) EXCEPT !.unlimited = TRUE]
Rows(opt, row(_)) == IF opt = <<>> THEN <<>> ELSE row(opt[1])

-----------------------------------------------------------------------------
(* What each vendor states, and the rows it is read as. *)

\* The scoped limits repeat a model's weekly window, or stand for it.
ClaudeBody ==
  [five |-> Opt("session", Percent), seven |-> Opt("weekly", Percent),
   opus |-> IF account.style = "scoped" THEN <<>> ELSE Opt("opus", Percent),
   limits |-> IF account.style = "fields" THEN <<>> ELSE Opt("opus", Percent)]
\* claudePut: a later row takes the place of the row of its label.
ClaudePut(rows, row) ==
  IF \E i \in DOMAIN rows : rows[i].label = row.label
  THEN [i \in DOMAIN rows |-> IF rows[i].label = row.label THEN row ELSE rows[i]]
  ELSE Append(rows, row)
ClaudeRows(body) ==
  LET fields == Rows(body.five, LAMBDA p : <<Row(<<"session">>, p, 100)>>) \o
                Rows(body.seven, LAMBDA p : <<Row(<<"weekly">>, p, 100)>>) \o
                Rows(body.opus, LAMBDA p : <<Row(<<"opus">>, p, 100)>>)
  IN  FoldLeft(LAMBDA rows, p : ClaudePut(rows, Row(<<"opus">>, AtLeast(0, AtMost(100, p)), 100)),
               fields, body.limits)

\* The token-plan host counts what was used, the coding-plan host what is left.
MiniMaxBody(left) ==
  LET Interval(name) ==
        IF ~Stated(name) THEN [total |-> 0, count |-> 0, percent |-> <<>>]
        ELSE IF account.style = "percent"
        THEN [total |-> 0, count |-> 0, percent |-> <<100 - Percent(Used(name))>>]
        ELSE [total |-> Full, count |-> IF left THEN Left(Used(name)) ELSE Used(name), percent |-> <<>>]
  IN  [session |-> Interval("session"), weekly |-> Interval("weekly")]

\* As if every host counted what was used.
MiniMaxUsed(left, total, count) == AtMost(total, AtLeast(0, count))
MiniMaxSpent(left, total, count) ==
  IF left THEN AtLeast(0, total - count) ELSE AtMost(total, AtLeast(0, count))
MiniMaxRow(label, interval, left) ==
  LET share == AtLeast(0, AtMost(100, interval.percent[1]))
  IN  IF interval.total > 0
      THEN <<Row(label, MiniMaxSpent(left, interval.total, interval.count), interval.total)>>
      ELSE IF interval.percent = <<>> THEN <<>>
      ELSE <<Row(label, MiniMaxSpent(left, 100, IF left THEN share ELSE 100 - share), 100)>>
MiniMaxRows(body, left) ==
  MiniMaxRow(<<"session">>, body.session, left) \o MiniMaxRow(<<"weekly">>, body.weekly, left)

\* A body that is not JSON reads as one that states nothing.
CommandCodeBody(credits, plan) ==
  LET Window(used) == [used |-> used, cap |-> Full]
      Wallet(n) == IF credits THEN n ELSE 0
      Limit(name) == IF credits THEN Opt(name, Window) ELSE <<>>
  IN  [cap |-> IF plan /\ account.style = "capped" THEN Full ELSE 0,
       monthly |-> Wallet(Left(Used("credits")) - 1), purchased |-> Wallet(1), free |-> 0,
       fiveHour |-> Limit("session"), weekly |-> Limit("weekly")]
CommandCodeBalance(label, window) ==
  LET used  == AtLeast(0, window.used)
      total == AtLeast(0, window.cap)
  IN  IF total = 0 /\ used = 0 THEN <<>> ELSE <<Row(label, AtMost(total, used), total)>>
CommandCodeRows(body) ==
  LET remaining == AtLeast(0, body.monthly + body.purchased + body.free)
  IN  <<IF body.cap > 0 THEN Row(<<"credits">>, AtLeast(0, body.cap - remaining), body.cap)
        ELSE Unlimited(<<"credits">>, 0, remaining)>> \o
      Rows(body.fiveHour, LAMBDA w : CommandCodeBalance(<<"session">>, w)) \o
      Rows(body.weekly, LAMBDA w : CommandCodeBalance(<<"weekly">>, w))

\* Packs whose credit is paid for long after the cycle are refilled, the others are a bonus.
RefillGap == 2
PackEnds(name) ==
  LET place == CASE name = "daily" -> 1 [] name = "monthly" -> 2 [] name = "other" -> 3
                 [] name = "bonus" -> 4 [] OTHER -> 5
  IN  IF account.style = "in order" THEN place ELSE 6 - place
PackKind(name) == CASE name = "daily" -> "Daily" [] name \in {"monthly", "other"} -> "Monthly"
                    [] OTHER -> "Bonus Pack"
Pack(name) ==
  [starts |-> IF name = "daily" THEN PackEnds(name) - 1 ELSE PackEnds(name) - 30,
   ends |-> PackEnds(name), used |-> Used(name), size |-> Full,
   deduction |-> PackEnds(name) + (IF PackKind(name) = "Bonus Pack" THEN RefillGap ELSE 30)]
CodeBuddyBody ==
  [i \in DOMAIN SetToSeq(DOMAIN account.meters) |-> Pack(SetToSeq(DOMAIN account.meters)[i])]
IsRefill(pack) == pack.deduction - pack.ends > RefillGap
RefillCadence(pack) ==
  LET days == pack.ends - pack.starts
  IN  CASE days <= 1 -> "Daily" [] days <= 10 -> "Weekly" [] OTHER -> "Monthly"
Numbered(base, n) == IF n > 1 THEN <<base, n>> ELSE <<base>>
CodeBuddyRows(packs) ==
  LET ByExpiry(seq) == SortSeq(seq, LAMBDA a, b : a.ends < b.ends)
      refills == ByExpiry(SelectSeq(packs, IsRefill))
      bonuses == ByExpiry(SelectSeq(packs, LAMBDA p : ~IsRefill(p)))
      Nth(i) == Len(SelectSeq(SubSeq(refills, 1, i), LAMBDA p : RefillCadence(p) = RefillCadence(refills[i])))
  IN  [i \in DOMAIN refills |->
         Row(Numbered(RefillCadence(refills[i]), Nth(i)), refills[i].used, refills[i].size)] \o
      [i \in DOMAIN bonuses |-> Row(<<"Bonus Pack", i>>, bonuses[i].used, bonuses[i].size)]

\* Wallets: a row holds a balance, nothing of it is used.
DeepSeekBody ==
  LET Wallet(name) == IF account.style = "snake" THEN [currency |-> name, total |-> Used(name), alt |-> 0]
                      ELSE [currency |-> name, total |-> 0, alt |-> Used(name)]
      names == SetToSeq(DOMAIN account.meters)
  IN  [i \in DOMAIN names |-> Wallet(names[i])]
DeepSeekRows(wallets) ==
  [i \in DOMAIN wallets |->
     LET amount == IF wallets[i].total = 0 THEN wallets[i].alt ELSE wallets[i].total
     IN  Row(<<wallets[i].currency>>, 0, AtLeast(0, amount))]

\* What remains of an account that is overdrawn is below nothing, and read as it is.
GitHubBody ==
  LET Snapshot(used) == [entitlement |-> Full, remaining |-> Left(used)]
      Paid(name) == Opt(name, Snapshot)
  IN  IF account.style = "paid"
      THEN [chat |-> Paid("chat"), completions |-> Paid("completions"), premium |-> Paid("premium")]
      ELSE [chat |-> Used("chat"), completions |-> Used("completions"), monthly |-> Full]
\* A snapshot that is not stated is not metered.
GitHubRow(label, snapshot) ==
  IF snapshot = <<>> THEN Unlimited(label, 0, 0)
  ELSE Row(label, snapshot[1].entitlement - snapshot[1].remaining, snapshot[1].entitlement)
GitHubRows(body) ==
  IF account.style = "paid"
  THEN <<GitHubRow(<<"chat">>, body.chat), GitHubRow(<<"completions">>, body.completions),
         GitHubRow(<<"premium">>, body.premium)>>
  ELSE <<Row(<<"chat">>, body.chat, body.monthly), Row(<<"completions">>, body.completions, body.monthly)>>

GlmBody ==
  LET Limit(name, unit) ==
        IF Stated(name) THEN <<[kind |-> account.style, unit |-> unit, percent |-> Percent(Used(name))]>>
        ELSE <<>>
  IN  <<[kind |-> "TIME_LIMIT", unit |-> 5, percent |-> 50]>> \o
      Limit("session", 3) \o Limit("weekly", 6) \o Limit("other", 1)
GlmPublished(kind) == kind \in {"tokens", "credits"}
GlmLabel(limit) ==
  CASE limit.unit = 3 -> <<"session">>
    [] limit.unit = 6 -> <<"weekly">>
    [] limit.kind = "tokens" -> <<"Tokens">>
    [] OTHER -> <<"Limit">>
GlmRows(limits) ==
  LET published == SelectSeq(limits, LAMBDA l : GlmPublished(l.kind))
  IN  [i \in DOMAIN published |-> Row(GlmLabel(published[i]), published[i].percent, 100)]

\* A header pair of which either is missing is no row.
GroqBody == [limit |-> Full, requests |-> Opt("requests", Left), tokens |-> Opt("tokens", Left)]
GroqRows(header) ==
  LET RateRow(label, remaining) == <<Row(label, AtLeast(0, header.limit - remaining), header.limit)>>
  IN  Rows(header.requests, LAMBDA left : RateRow(<<"requests">>, left)) \o
      Rows(header.tokens, LAMBDA left : RateRow(<<"tokens">>, left))

\* The rate windows are a list of which the last with a ceiling counts.
KimiBody ==
  LET Window(used) == IF account.style = "used" THEN [limit |-> Full, used |-> used, remaining |-> <<>>]
                      ELSE [limit |-> Full, used |-> 0, remaining |-> <<Left(used)>>]
      NoCeiling == [limit |-> 0, used |-> 0, remaining |-> <<>>]
  IN  [usage |-> Opt("weekly", Window), limits |-> <<NoCeiling>> \o Opt("rate", Window)]
KimiRow(label, window) ==
  LET total == AtLeast(0, window.limit)
      used  == IF window.remaining = <<>> THEN window.used ELSE total - AtLeast(0, window.remaining[1])
  IN  IF total = 0 THEN <<>> ELSE <<Row(label, AtMost(total, AtLeast(0, used)), total)>>
KimiRows(body) ==
  LET rates == FlattenSeq([i \in DOMAIN body.limits |-> KimiRow(<<"rate">>, body.limits[i])])
  IN  Rows(body.usage, LAMBDA w : KimiRow(<<"weekly">>, w)) \o
      (IF rates = <<>> THEN <<>> ELSE <<Last(rates)>>)

OpenCodeBody == [rolling |-> Opt("rolling", Percent), weekly |-> Opt("weekly", Percent),
                 monthly |-> Opt("monthly", Percent)]
OpenCodeRows(usage) ==
  LET Window(label, percent) == Rows(percent, LAMBDA p : <<Row(label, AtLeast(0, AtMost(100, p)), 100)>>)
  IN  Window(<<"rolling">>, usage.rolling) \o Window(<<"weekly">>, usage.weekly) \o
      Window(<<"monthly">>, usage.monthly)

QoderBody ==
  LET Bucket(name) == IF Stated(name) THEN [total |-> Full, used |-> Used(name)] ELSE [total |-> 0, used |-> 0]
  IN  [personal |-> Bucket("personal"), organization |-> Bucket("organization")]
QoderRows(body) ==
  LET BucketRow(label, b) == IF b.total <= 0 /\ b.used <= 0 THEN <<>> ELSE <<Row(label, b.used, b.total)>>
  IN  BucketRow(<<"personal">>, body.personal) \o BucketRow(<<"organization">>, body.organization)

\* A limit is a number, "unlimited", or none: then hosted models are billed by the token.
ZedBody ==
  LET Bucket(used) ==
        [used |-> used, unlimited |-> account.style = "unlimited",
         limit |-> IF account.style = "number" THEN Full ELSE 0]
  IN  [edits |-> Opt("edits", Bucket), models |-> Opt("models", Bucket)]
ZedRow(label, bucket) ==
  LET used == AtLeast(0, bucket.used)
  IN  CASE bucket.unlimited -> Unlimited(label, used, 0)
        [] bucket.limit <= 0 -> Row(label, used, 0)
        [] OTHER -> Row(label, AtMost(bucket.limit, used), bucket.limit)
ZedRows(body) ==
  Rows(body.edits, LAMBDA b : <<ZedRow(<<"edits">>, b)>>) \o
  Rows(body.models, LAMBDA b : IF b.unlimited \/ b.limit > 0 THEN <<ZedRow(<<"models">>, b)>> ELSE <<>>)

\* Google states the fraction that remains.
Normalised == 1000
Fraction(used) == (Normalised * Left(used)) \div Full
ShareRow(label, fraction) ==
  Row(label, Normalised - AtLeast(0, AtMost(Normalised, fraction)), Normalised)
GeminiRows(body) == Rows(body.flash, LAMBDA f : <<ShareRow(<<"flash">>, f)>>) \o
                    Rows(body.pro, LAMBDA f : <<ShareRow(<<"pro">>, f)>>)
ModelBody == [flash |-> Opt("flash", Fraction), pro |-> Opt("pro", Fraction), opus |-> Opt("opus", Fraction)]
ModelRows(body, freeTier) ==
  IF freeTier THEN <<>>
  ELSE Rows(body.flash, LAMBDA f : <<ShareRow(<<"flash">>, f)>>) \o
       Rows(body.opus, LAMBDA f : <<ShareRow(<<"opus">>, f)>>)

\* The windows of the summary: a session that is spent is stated as disabled, without a share.
SummaryBody ==
  LET Bucket(used) == IF used >= Full THEN [disabled |-> TRUE, fraction |-> <<>>]
                      ELSE [disabled |-> FALSE, fraction |-> <<Fraction(used)>>]
      Share(used) == [disabled |-> FALSE, fraction |-> <<Fraction(used)>>]
  IN  [gemini |-> [session |-> Opt("gemini session", Bucket), weekly |-> Opt("gemini weekly", Share)],
       claude |-> [session |-> Opt("claude session", Bucket), weekly |-> Opt("claude weekly", Share)]]
WeekRow(label, bucket, weekly) ==
  CASE bucket.disabled /\ weekly -> <<>>
    [] bucket.disabled -> <<ShareRow(label, 0)>>
    [] bucket.fraction = <<>> -> <<>>
    [] OTHER -> <<ShareRow(label, bucket.fraction[1])>>
WeeklyRows(body) ==
  Rows(body.gemini.session, LAMBDA b : WeekRow(<<"gemini session">>, b, FALSE)) \o
  Rows(body.gemini.weekly, LAMBDA b : WeekRow(<<"gemini weekly">>, b, TRUE)) \o
  Rows(body.claude.session, LAMBDA b : WeekRow(<<"claude session">>, b, FALSE)) \o
  Rows(body.claude.weekly, LAMBDA b : WeekRow(<<"claude weekly">>, b, TRUE))
\* A family whose every model is spent has no session left, whatever the summary says.
SpentFamily(models, id) ==
  LET own == SelectSeq(models, LAMBDA r : r.label = <<id>>)
  IN  own # <<>> /\ \A i \in DOMAIN own : own[i].used >= own[i].total
MarkSpent(rows, label) ==
  [i \in DOMAIN rows |-> IF rows[i].label = label THEN [rows[i] EXCEPT !.used = rows[i].total] ELSE rows[i]]
Reconcile(models, weekly) ==
  LET gemini == IF SpentFamily(models, "flash") THEN MarkSpent(weekly, <<"gemini session">>) ELSE weekly
  IN  IF SpentFamily(models, "opus") THEN MarkSpent(gemini, <<"claude session">>) ELSE gemini

\* A free account states an on-demand cap of nothing.
GrokBody ==
  LET Limited(used) == [cap |-> IF account.style = "free" THEN 0 ELSE Full, used |-> used]
      Monthly(used) == [limit |-> Full, used |-> used]
      Balance(used) == used
      Share(name) == IF account.style = "frame" THEN <<>> ELSE Opt(name, Percent)
  IN  [monthly |-> Opt("monthly", Monthly), ondemand |-> Opt("ondemand", Limited),
       prepaid |-> Opt("prepaid", Balance), percent |-> Share("weekly"),
       tier |-> IF account.style = "subscribed" THEN "super" ELSE "free"]
GrokRows(config) ==
  Rows(config.monthly, LAMBDA m : <<Row(<<"monthly">>, m.used, m.limit)>>) \o
  Rows(config.ondemand, LAMBDA o :
         CASE o.cap > 0 -> <<Row(<<"ondemand">>, o.used, o.cap)>>
           [] config.tier = "free" -> <<Row(<<"ondemand">>, 1, 1)>>
           [] OTHER -> <<>>) \o
  Rows(config.prepaid, LAMBDA p : IF p > 0 THEN <<Row(<<"prepaid">>, 0, p)>> ELSE <<>>) \o
  Rows(config.percent, LAMBDA p : <<Row(<<"weekly">>, AtMost(100, AtLeast(0, p)), 100)>>)
GrokFrame == Rows(Opt("weekly", Percent), LAMBDA p : <<Row(<<"weekly">>, p, 100)>>)

-----------------------------------------------------------------------------
(* The surfaces a family is asked. *)

Heard(surface) ==
  LET back == SelectSeq(asked, LAMBDA a : a.surface = surface)
  IN  IF back = <<>> THEN "" ELSE back[1].status
Answered(surface) == Heard(surface) = "ok"
Refused(surface) == Heard(surface) \notin {"", "ok", "unreadable"}
\* A surface, unless it was asked.
Once(surface) == IF Heard(surface) = "" THEN surface ELSE ""

\* Only a usage document without a row, or a refusal that is not the credential's, asks on.
ClaudeWants ==
  CASE Heard("usage") = "" -> "usage"
    [] Heard("usage") \in {"lost", "throttled", "denied"} -> ""
    [] Answered("usage") /\ ClaudeRows(ClaudeBody) # <<>> -> ""
    [] Heard("settings") = "" -> "settings"
    [] Answered("settings") -> Once("org")
    [] OTHER -> ""
MiniMaxWants ==
  CASE Heard("token plan") = "" -> "token plan"
    [] Heard("token plan") \in {"lost", "missing", "outage"} -> Once("coding plan")
    [] OTHER -> ""
CommandCodeWants ==
  CASE Heard("whoami") = "" -> "whoami"
    [] Refused("whoami") -> ""
    [] Heard("credits") = "" -> "credits"
    [] Refused("credits") -> ""
    [] OTHER -> Once("subscriptions")
\* A personal access token is exchanged first.
QoderWants ==
  CASE account.style = "pat" /\ Heard("job token") = "" -> "job token"
    [] account.style = "pat" /\ ~Answered("job token") -> ""
    [] OTHER -> Once("usage")
\* Without a project there is no quota to ask for; a failed bootstrap leaves none.
GeminiWants ==
  CASE account.style = "asked" /\ Heard("assist") = "" -> "assist"
    [] account.style = "asked" /\ ~Answered("assist") -> ""
    [] OTHER -> Once("quota")
\* The bootstrap and the summary may fail without costing the models.
AntigravityWants ==
  CASE Heard("assist") = "" -> "assist"
    [] Heard("models") = "" -> "models"
    [] Answered("models") -> Once("summary")
    [] OTHER -> ""
GrokWants ==
  CASE Heard("billing") = "" -> "billing"
    [] Refused("billing") -> ""
    [] Heard("user") = "" -> "user"
    [] Answered("billing") /\ GrokRows(GrokBody) = <<>> -> Once("frame")
    [] OTHER -> ""

Wants ==
  CASE family = "claude" -> ClaudeWants
    [] family = "minimax" -> MiniMaxWants
    [] family = "commandcode" -> CommandCodeWants
    [] family = "qoder" -> QoderWants
    [] family = "gemini" -> GeminiWants
    [] family = "antigravity" -> AntigravityWants
    [] family = "grok" -> GrokWants
    [] OTHER -> Once("quota")

FreeTier == account.style = "free" \/ ~Answered("assist")
AntigravityRows ==
  LET models == ModelRows(ModelBody, FreeTier)
      weekly == IF Answered("summary") THEN WeeklyRows(SummaryBody) ELSE <<>>
  IN  models \o Reconcile(models, weekly)

Reading ==
  CASE family = "claude" -> IF Answered("usage") \/ Answered("org") THEN ClaudeRows(ClaudeBody) ELSE <<>>
    [] family = "minimax" ->
         IF Answered("token plan") THEN MiniMaxRows(MiniMaxBody(FALSE), FALSE)
         ELSE IF Answered("coding plan") THEN MiniMaxRows(MiniMaxBody(TRUE), TRUE) ELSE <<>>
    [] family = "commandcode" ->
         IF Heard("subscriptions") \in {"ok", "unreadable"}
         THEN CommandCodeRows(CommandCodeBody(Answered("credits"), Answered("subscriptions"))) ELSE <<>>
    [] family = "qoder" -> IF Answered("usage") THEN QoderRows(QoderBody) ELSE <<>>
    [] family = "antigravity" -> IF Answered("models") THEN AntigravityRows ELSE <<>>
    [] family = "grok" -> IF Answered("frame") THEN GrokFrame
                          ELSE IF Answered("billing") THEN GrokRows(GrokBody) ELSE <<>>
    [] ~Answered("quota") -> <<>>
    [] family = "codebuddy" -> CodeBuddyRows(CodeBuddyBody)
    [] family = "deepseek" -> DeepSeekRows(DeepSeekBody)
    [] family = "github" -> GitHubRows(GitHubBody)
    [] family = "glm" -> GlmRows(GlmBody)
    [] family = "groq" -> GroqRows(GroqBody)
    [] family = "kimi" -> KimiRows(KimiBody)
    [] family = "opencode" -> OpenCodeRows(OpenCodeBody)
    [] family = "zed" -> ZedRows(ZedBody)
    [] family = "gemini" -> GeminiRows(ModelBody)

-----------------------------------------------------------------------------
(* What the schedule hears. *)

\* Claude's 429 asks for patience, and a bootstrap or a user view that fails says nothing.
Tolerated(ask) == \/ ask.surface \in Bootstrap
                  \/ ask.surface = "usage" /\ family = "claude" /\ ask.status = "throttled"
\* hardFailure: whatever the refusal was.
Hard(ask) ==
  \/ family = "github" /\ ask.status \notin {"ok", "unreadable", "lost"}
  \/ ask.surface = "models" /\ ask.status \notin {"ok", "unreadable", "lost", "denied"}

\* countTransientFailure
Failed(ask) ==
  Hard(ask) \/ (TransientStatus(ask.status) /\ ~Tolerated(ask) /\ family \notin SoftFamilies)

Waiting == [at |-> "waiting", rows |-> <<>>, failed |-> FALSE]
Init ==
  /\ family \in Families
  /\ account \in {a \in Accounts(family) : Proper(family, a)}
  /\ asked = <<>>
  /\ result = Waiting

Ask ==
  \E status \in Replies(Wants) :
    /\ result = Waiting /\ Wants # ""
    /\ asked' = Append(asked, [surface |-> Wants, status |-> status])
    /\ UNCHANGED <<family, account, result>>

Fetch ==
  /\ result = Waiting /\ Wants = ""
  /\ result' = [at |-> "read", rows |-> Reading, failed |-> Reading = <<>> /\ Failed(Last(asked))]
  /\ UNCHANGED <<family, account, asked>>

Next == Ask \/ Fetch
Spec == Init /\ [][Next]_meterVars

-----------------------------------------------------------------------------
(* What the vendor said, told without its shapes. *)

Label(name) ==
  CASE family = "codebuddy" ->
         LET before == {n \in DOMAIN account.meters : /\ PackKind(n) = PackKind(name)
                                                      /\ PackEnds(n) <= PackEnds(name)}
             place  == Cardinality(before)
         IN  IF place = 1 /\ PackKind(name) # "Bonus Pack" THEN <<PackKind(name)>>
             ELSE <<PackKind(name), place>>
    [] family = "glm" /\ name = "other" -> IF account.style = "tokens" THEN <<"Tokens">> ELSE <<"Limit">>
    [] OTHER -> <<name>>

Unmetered(name) ==
  \/ family = "github" /\ ~Stated(name)
  \/ family = "zed" /\ account.style = "unlimited"
Billed(name) == family = "zed" /\ account.style = "tokens"
Balance(name) ==
  \/ family = "deepseek" \/ name = "prepaid" \/ (name = "credits" /\ account.style = "uncapped")
Held(name) == IF name = "credits" THEN Left(Used(name)) ELSE Used(name)
\* Of two meters of one thing the emptier one counts.
ModelOf(name) == IF name = "gemini session" THEN "flash" ELSE "opus"
Spent(name) ==
  IF \/ family = "grok" /\ name = "ondemand" /\ account.style = "free"
     \/ /\ name \in {"gemini session", "claude session"} /\ ~FreeTier
        /\ Stated(ModelOf(name)) /\ Used(ModelOf(name)) >= Full
  THEN Full ELSE AtMost(Full, Used(name))

\* What the surfaces that answered state of the account.
Told ==
  CASE family = "github" /\ account.style = "paid" -> Names("github")
    [] family = "zed" /\ account.style = "tokens" -> DOMAIN account.meters \ {"models"}
    [] family = "grok" -> {n \in DOMAIN account.meters : n = "prepaid" => Used(n) > 0}
    [] family = "antigravity" ->
         {n \in DOMAIN account.meters : IF n \in {"flash", "opus"} THEN ~FreeTier ELSE Answered("summary")}
    [] OTHER -> DOMAIN account.meters
Says(row, name) ==
  CASE Unmetered(name) -> row.unlimited
    [] Billed(name) -> row.total = 0
    [] Balance(name) -> row.used = 0 /\ row.total = AtLeast(0, Held(name))
    [] OTHER -> /\ row.total > 0 /\ ~row.unlimited
                /\ AtMost(row.total, row.used) * Full = Spent(name) * row.total

\* Whatever shape a vendor states its meters in, and whichever surface answered, the card
\* shows each of them, once, under a name of its own, with the share that is really used, and
\* nothing else (quotafetch/*.go): a counter of what is left read as one of what was used
\* would turn a full account into a spent one.
ReadingTrue ==
  result.at = "read" /\ ~(family = "commandcode" /\ (\E i \in DOMAIN asked : asked[i].status = "unreadable")) =>
    /\ Last(asked).surface \notin Bootstrap /\ Answered(Last(asked).surface) /\ Told # {}
         => result.rows # <<>>
    /\ result.rows # <<>> =>
         /\ Len(result.rows) = Cardinality(Told)
         /\ \A name \in Told : \E i \in DOMAIN result.rows :
              result.rows[i].label = Label(name) /\ Says(result.rows[i], name)

\* The cache refuses a whole answer for one bad row (domain/quota_published.go Validate).
Storable ==
  result.at = "read" =>
    /\ \A i, j \in DOMAIN result.rows : result.rows[i].label = result.rows[j].label => i = j
    /\ \A i \in DOMAIN result.rows : result.rows[i].used >= 0 /\ result.rows[i].total >= 0

\* A poll counts as failed only when a surface that carries the quota failed, a family whose
\* answers are soft never does, and a vendor that is wholly down always does
\* (quotafetch/dispatcher.go countTransientFailure).
FailuresTold ==
  result.at = "read" =>
    /\ result.failed => /\ family \notin SoftFamilies /\ result.rows = <<>>
                        /\ \E i \in DOMAIN asked : /\ asked[i].surface \notin Bootstrap
                                                   /\ asked[i].status \notin {"ok", "unreadable", "declined"}
    /\ (\A i \in DOMAIN asked : asked[i].status \in {"outage", "lost"})
         /\ (\E i \in DOMAIN asked : asked[i].surface \notin Bootstrap) /\ family \notin SoftFamilies
       => result.failed

MetersSound == ReadingTrue /\ Storable /\ FailuresTold
=============================================================================
