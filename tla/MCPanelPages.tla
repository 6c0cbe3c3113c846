---------------------------- MODULE MCPanelPages ----------------------------
(***************************************************************************)
(* The pages of the panel that list and change the things of an account or *)
(* of the server, for TLC.  One page is open in a behaviour, and of its    *)
(* groups of actions that share no state one is taken, so that the state   *)
(* spaces add up instead of multiplying.  For the same reason the pages    *)
(* take turns in the variables: v1 is the first variable of the page that  *)
(* is open, v2 its second, and those it has no use for are none.           *)
(***************************************************************************)
EXTENDS Integers, Sequences, FiniteSets, SequencesExt

CONSTANTS
    Sites,      \* sites, and whatever else there are several of on a page
    Subs,       \* subdomains
    Presets,    \* cron jobs the panel proposes
    Bundles,    \* packages of the server
    Providers,  \* the sites in an order, as providers of the assistant
    none,
    MaxAsks,    \* bounds: requests of a page,
    MaxRuns,    \*   jobs or backups it starts,
    MaxMade     \*   and operations and passwords

ASSUME PagesAssumption ==
    /\ none \notin Sites \cup Subs
    /\ \A S \in SUBSET Sites : none # S
    /\ none \notin [op : Nat, phase : {"running", "ended"}] \cup [site : Sites, id : Nat]
                        \cup [site : Sites, on : BOOLEAN, done : BOOLEAN]
    /\ Providers \in Seq(Sites)
    /\ \A i, j \in DOMAIN Providers : Providers[i] = Providers[j] => i = j
    /\ {MaxAsks, MaxRuns, MaxMade} \subseteq Nat /\ MaxMade > 0

VARIABLES open, group, v1, v2, v3, v4, v5, v6, v7, v8, v9, v10, v11, v12, v13, v14, v15, v16,
          v17, v18

In == INSTANCE Installer WITH
         InSites <- Sites, InMaxRuns <- MaxRuns, inRuns <- v1, inKnown <- v2,
         inFetch <- v3, inAnswer <- v4, inPost <- v5, inActive <- v6, inSeen <- v7,
         inEarly <- v8, inSite <- v9, inRoot <- v10, inListed <- v11,
         inVariant <- v12, inDocPost <- v13, inCrossed <- v14
Db == INSTANCE Databases WITH
         DbIds <- Sites, DbNone <- none, DbMaxPasswords <- MaxMade,
         DbMaxImports <- MaxMade, dbRows <- v1, dbPage <- v2, dbCache <- v3,
         dbAsked <- v4, dbDeleting <- v5, dbUnheard <- v6, dbSecret <- v7,
         dbMade <- v8, dbChanges <- v9, dbRotating <- v10, dbReveal <- v11,
         dbCross <- v12, dbRuns <- v13, dbImport <- v14, dbPosts <- v15,
         dbFollowed <- v16, dbGivenUp <- v17
Bk == INSTANCE BackupsPage WITH
         BkSites <- Sites, BkNone <- none, BkMaxOps <- MaxMade,
         BkMaxBackups <- MaxRuns, bkOps <- v1, bkUi <- v2, bkTimers <- v3,
         bkCount <- v4, bkEarly <- v5, bkFilter <- v6, bkRows <- v7, bkLists <- v8,
         bkReading <- v9, bkCreate <- v10, bkNames <- v11, bkFiles <- v12,
         bkNameless <- v13, bkForm <- v14, bkSaves <- v15, bkSchedules <- v16
Qs == INSTANCE QuickSettings WITH
         QsSites <- Sites, QsNone <- none, QsMaxTexts <- 1, QsMaxAsks <- MaxAsks,
         qsOpen <- v1, qsDisk <- v2, qsCache <- v3, qsEditor <- v4, qsPost <- v5,
         qsTexts <- v6, qsUnheard <- v7, qsAsked <- v8, qsAsks <- v9,
         qsPick <- v10, qsPhase <- v11, qsTimers <- v12, qsSwitch <- v13,
         qsSet <- v14, qsSetCache <- v15, qsShownOn <- v16, qsTurning <- v17,
         qsCrossed <- v18
Dm == INSTANCE DomainsPage WITH
         DmSites <- Sites, DmNone <- none, DmMaxChanges <- MaxAsks, dmRows <- v1,
         dmShown <- v2, dmStale <- v3, dmRead <- v4, dmAsked <- v5, dmAsks <- v6,
         dmBusy <- v7, dmRemoving <- v8, dmAdd <- v9, dmDelete <- v10,
         dmUnheard <- v11, dmReport <- v12, dmReports <- v13
Em == INSTANCE EmailPage WITH
         EmSites <- Sites, EmNone <- none, EmMaxAsks <- MaxAsks, emSite <- v1,
         emRows <- v2, emCache <- v3, emAsked <- v4, emAsks <- v5, emDialog <- v6,
         emEdit <- v7, emDeleting <- v8, emSecret <- v9, emSecrets <- v10,
         emReveal <- v11, emCrossed <- v12
Cn == INSTANCE CronPage WITH
         CnJobs <- Sites, CnPreset <- Presets, CnSites <- Sites, CnNone <- none,
         CnMaxAsks <- MaxAsks, cnRows <- v1, cnList <- v2, cnQuota <- v3,
         cnAsked <- v4, cnAsks <- v5, cnModal <- v6, cnForm <- v7,
         cnDeleting <- v8, cnUnheard <- v9, cnSite <- v10, cnDeep <- v11,
         cnFound <- v12
Pl == INSTANCE PluginsStore WITH
         PlModules <- Sites, PlNone <- none, PlMaxAsks <- MaxAsks, plStatus <- v1,
         plList <- v2, plSlugs <- v3, plAsked <- v4, plMe <- v5, plAsks <- v6,
         plCrossed <- v7, plWizard <- v8, plStep <- v9, plForm <- v10,
         plCheck <- v11, plFound <- v12, plMoving <- v13, plStray <- v14,
         plRuns <- v15, plRunList <- v16
Ai == INSTANCE AiAdvisor WITH
         AiSessions <- Sites, AiProviders <- Providers, AiNone <- none,
         AiMaxAsks <- MaxAsks, aiHeld <- v1, aiGone <- v2, aiList <- v3,
         aiMsgs <- v4, aiUsage <- v5, aiShown <- v6, aiInput <- v7,
         aiPending <- v8, aiAsked <- v9, aiAsks <- v10, aiUnheard <- v11,
         aiCrossed <- v12, aiDefault <- v13, aiDraft <- v14, aiSaves <- v15
Sl == INSTANCE SslPage WITH
         SlTargets <- Sites \cup Subs, SlSubs <- Subs, SlNone <- none,
         SlMaxAsks <- MaxAsks, slRow <- v1, slOn <- v2, slServed <- v3,
         slForce <- v4, slAuto <- v5, slCerts <- v6, slFlags <- v7, slAsked <- v8,
         slAsks <- v9, slJob <- v10, slSetting <- v11, slManual <- v12,
         slText <- v13, slMet <- v14, slUnheard <- v15, slLeft <- v16
Na == INSTANCE NodeApp WITH
         NaTargets <- Sites, NaDirs <- {"root", "app"}, NaNone <- none,
         NaMaxAsks <- MaxAsks, NaMaxDetects <- 1, naConf <- v1, naCache <- v2,
         naPicked <- v3, naLast <- v4, naForm <- v5, naOut <- v6, naDetects <- v7,
         naAsked <- v8, naAsks <- v9, naMissed <- v10
Tf == INSTANCE TwoFactor WITH
         TfMaxAsks <- MaxMade, tfSecret <- v1, tfOn <- v2, tfPending <- v3,
         tfCodes <- v4, tfStatus <- v5, tfUser <- v6, tfSetup <- v7, tfQr <- v8,
         tfDraws <- v9, tfShown <- v10, tfAsked <- v11, tfAsks <- v12,
         tfConfirmed <- v13, tfExpired <- v14, tfMet <- v15, tfUnheard <- v16
Dn == INSTANCE DnsPage WITH
         DnSites <- Sites, DnNone <- none, DnMaxAsks <- MaxAsks, dnRows <- v1,
         dnDisk <- v2, dnServed <- v3, dnSyncs <- v4, dnQueued <- v5,
         dnCache <- v6, dnPicked <- v7, dnAsked <- v8, dnAsks <- v9,
         dnAdding <- v10, dnMissed <- v11, dnMet <- v12, dnLost <- v13
Dp == INSTANCE DeployPage WITH
         DpSites <- Sites, DpNone <- none, DpMaxAsks <- MaxAsks,
         DpMaxRuns <- MaxRuns, dpConf <- v1, dpOrigin <- v2, dpHead <- v3,
         dpRuns <- v4, dpLast <- v5, dpCache <- v6, dpPicked <- v7, dpForm <- v8,
         dpOpen <- v9, dpAsked <- v10, dpAsks <- v11, dpMissed <- v12,
         dpLate <- v13, dpMet <- v14
Sk == INSTANCE StackInstalls WITH
         SkBundles <- Bundles, SkMaxRuns <- MaxRuns, SkMaxKills <- 1, skRuns <- v1,
         skJobs <- v2, skKilled <- v3, skAsk <- v4, skCancel <- v5, skList <- v6,
         skOpen <- v7, skDetail <- v8, skTold <- v9
Ph == INSTANCE PhpSettings WITH
         PhVersions <- Sites, PhNone <- none, PhMaxAsks <- MaxAsks,
         PhMaxSyncs <- MaxRuns, phDisk <- v1, phIni <- v2, phMods <- v3,
         phVersion <- v4, phText <- v5, phList <- v6, phAsked <- v7, phAsks <- v8,
         phMissed <- v9, phBare <- v10, phSyncs <- v11, phSyncAsk <- v12,
         phSyncId <- v13, phSyncLost <- v14
Mo == INSTANCE MonitoringPage WITH
         MoSites <- Sites, MoNone <- none, MoMaxAsks <- MaxAsks, MoMaxLoads <- MaxMade,
         MoMaxPoints <- MaxMade, moRows <- v1, moFresh <- v2, moStale <- v3,
         moJobs <- v4, moList <- v5, moPicked <- v6, moData <- v7, moFailed <- v8,
         moPrev <- v9, moAsked <- v10, moAsks <- v11, moLoad <- v12, moKept <- v13,
         moStats <- v14, moPoints <- v15, moSummary <- v16, moErrors <- v17
Ml == INSTANCE MailSettings WITH
         MlHosts <- Bundles, MlSites <- Sites, MlNone <- none, MlMaxAsks <- MaxAsks,
         mlRow <- v1, mlCache <- v2, mlReads <- v3, mlLate <- v4, mlData <- v5,
         mlForm <- v6, mlFetch <- v7, mlSaves <- v8, mlMissed <- v9, mlAsks <- v10,
         mlInput <- v11, mlCheck <- v12, mlSetup <- v13, mlAdding <- v14,
         mlRecords <- v15, mlWork <- v16, mlCrossed <- v17

\* The variables beyond those of a page: at the start, and as a page leaves them.
Rest18 == TRUE
Rest17 == v18 = none
Rest16 == v17 = none /\ Rest17
Rest15 == v16 = none /\ Rest16
Rest14 == v15 = none /\ Rest15
Rest13 == v14 = none /\ Rest14
Rest12 == v13 = none /\ Rest13
Rest10 == v11 = none /\ v12 = none /\ Rest12
Rest9 == v10 = none /\ Rest10
Left18 == TRUE
Left17 == UNCHANGED v18
Left16 == UNCHANGED <<v17, v18>>
Left15 == UNCHANGED <<v16, v17, v18>>
Left14 == UNCHANGED <<v15, v16, v17, v18>>
Left13 == UNCHANGED <<v14, v15, v16, v17, v18>>
Left12 == UNCHANGED <<v13, v14, v15, v16, v17, v18>>
Left10 == UNCHANGED <<v11, v12, v13, v14, v15, v16, v17, v18>>
Left9 == UNCHANGED <<v10, v11, v12, v13, v14, v15, v16, v17, v18>>

\* What a page is entered in: one of its parts alone, or the whole page.
Parts(parts) == group \in parts \cup {"every"}
PagesInit ==
    \/ open = "installer" /\ Parts({"run", "guide"}) /\ In!InInit /\ Rest14
    \/ open = "databases" /\ Parts({"list", "passwords", "imports"}) /\ Db!DbInit /\ Rest17
    \/ open = "backups" /\ Parts({"operations", "list", "schedules"}) /\ Bk!BkInit /\ Rest16
    \/ open = "quick settings" /\ Parts({"vhost", "changes", "switches"}) /\ Qs!QsInit /\ Rest18
    \/ open = "domains" /\ Parts({"list", "reports"}) /\ Dm!DmInit /\ Rest13
    \/ open = "email" /\ Parts({}) /\ Em!EmInit /\ Rest12
    \/ open = "cron" /\ Parts({"list", "scan"}) /\ Cn!CnInit /\ Rest12
    \/ open = "plugins" /\ Parts({"store", "wizard"}) /\ Pl!PlInit /\ Rest16
    \/ open = "advisor" /\ Parts({"chat", "providers"}) /\ Ai!AiInit /\ Rest15
    \/ open = "ssl" /\ Parts({}) /\ Sl!SlInit /\ Rest16
    \/ open = "node" /\ Parts({}) /\ Na!NaInit /\ Rest10
    \/ open = "two-factor" /\ Parts({}) /\ Tf!TfInit /\ Rest16
    \/ open = "dns" /\ Parts({}) /\ Dn!DnInit /\ Rest13
    \/ open = "deploy" /\ Parts({"config", "runs"}) /\ Dp!DpInit /\ Rest14
    \/ open = "stack" /\ Parts({}) /\ Sk!SkInit /\ Rest9
    \/ open = "php" /\ Parts({"config", "sync"}) /\ Ph!PhInit /\ Rest14
    \/ open = "monitoring" /\ Parts({"health", "server"}) /\ Mo!MoInit /\ Rest17
    \/ open = "mail settings" /\ Parts({"settings", "wizard"}) /\ Ml!MlInit /\ Rest17

Part(part) == group \in {part, "every"} /\ UNCHANGED <<open, group>>

PagesNext ==
    \/ open = "installer" /\ Part("run") /\ In!InRunNext /\ Left14
    \/ open = "installer" /\ Part("guide") /\ In!InGuideNext /\ Left14
    \/ open = "databases" /\ Part("list") /\ Db!DbListNext /\ Left17
    \/ open = "databases" /\ Part("passwords") /\ Db!DbSecretNext /\ Left17
    \/ open = "databases" /\ Part("imports") /\ Db!DbImportNext /\ Left17
    \/ open = "backups" /\ Part("operations") /\ Bk!BkOpNext /\ Left16
    \/ open = "backups" /\ Part("list") /\ Bk!BkListNext /\ Left16
    \/ open = "backups" /\ Part("schedules") /\ Bk!BkFormNext /\ Left16
    \/ open = "quick settings" /\ Part("vhost") /\ Qs!QsEditorNext /\ Left18
    \/ open = "quick settings" /\ Part("changes") /\ Qs!QsChangeNext /\ Left18
    \/ open = "quick settings" /\ Part("switches") /\ Qs!QsSwitchNext /\ Left18
    \/ open = "domains" /\ Part("list") /\ Dm!DmListNext /\ Left13
    \/ open = "domains" /\ Part("reports") /\ Dm!DmReportNext /\ Left13
    \/ open = "email" /\ Part("every") /\ Em!EmNext /\ Left12
    \/ open = "cron" /\ Part("list") /\ Cn!CnListNext /\ Left12
    \/ open = "cron" /\ Part("scan") /\ Cn!CnScanNext /\ Left12
    \/ open = "plugins" /\ Part("store") /\ Pl!PlStoreNext /\ Left16
    \/ open = "plugins" /\ Part("wizard") /\ Pl!PlWizardNext /\ Left16
    \/ open = "advisor" /\ Part("chat") /\ Ai!AiChatNext /\ Left15
    \/ open = "advisor" /\ Part("providers") /\ Ai!AiSettingsNext /\ Left15
    \/ open = "ssl" /\ Part("every") /\ Sl!SlNext /\ Left16
    \/ open = "node" /\ Part("every") /\ Na!NaNext /\ Left10
    \/ open = "two-factor" /\ Part("every") /\ Tf!TfNext /\ Left16
    \/ open = "dns" /\ Part("every") /\ Dn!DnNext /\ Left13
    \/ open = "deploy" /\ Part("config") /\ Dp!DpConfigNext /\ Left14
    \/ open = "deploy" /\ Part("runs") /\ Dp!DpRunNext /\ Left14
    \/ open = "stack" /\ Part("every") /\ Sk!SkNext /\ Left9
    \/ open = "php" /\ Part("config") /\ Ph!PhConfigNext /\ Left14
    \/ open = "php" /\ Part("sync") /\ Ph!PhSyncNext /\ Left14
    \/ open = "monitoring" /\ Part("health") /\ Mo!MoHealthNext /\ Left17
    \/ open = "monitoring" /\ Part("server") /\ Mo!MoServerNext /\ Left17
    \/ open = "mail settings" /\ Part("settings") /\ Ml!MlSettingsNext /\ Left17
    \/ open = "mail settings" /\ Part("wizard") /\ Ml!MlWizardNext /\ Left17

pageVars == <<v1, v2, v3, v4, v5, v6, v7, v8, v9, v10, v11, v12, v13, v14, v15, v16, v17, v18>>

PagesSpec == PagesInit /\ [][PagesNext]_<<open, group, pageVars>>

-----------------------------------------------------------------------------
\* For TLC: a page that has parts is entered in one of them, and where the other
\* choice would only rename the sites, the one picked is the first, which has rows.
TwoProviders == SetToSeq(Sites)
First == CHOOSE d \in Sites : TRUE

MCInit ==
    /\ PagesInit
    /\ group = "every" <=> open \in {"email", "ssl", "node", "two-factor", "dns", "stack"}
    /\ open = "quick settings" =>
           /\ \A d \in Sites : v2[d].live = 1 <=> d = First
           /\ group # "switches" => v13 = "perf" /\ \A d \in Sites : ~v14[d]
    /\ open = "cron" => v10 = First /\ v1[First] = 1
    /\ open = "plugins" /\ group = "wizard" => \A m \in Sites : v1[m] = "active"
    /\ open = "advisor" => IF group = "chat" THEN \A i \in DOMAIN Providers : ~v13[i]
                                             ELSE v3.sessions = {}
    /\ open = "ssl" => \A t \in Sites \cup Subs : v1[t] = "active" <=> t \in Subs \cup {First}
    /\ open = "node" => \A t \in Sites : v1[t].saved <=> t = First
    /\ open = "dns" => v7 = First /\ \A d \in Sites : v1[d] # {} <=> d = First
    /\ open = "deploy" /\ group = "runs" => v7 = First /\ \A d \in Sites : v1[d] = d
    /\ open = "php" => v4 = First
    /\ open = "monitoring" =>
           /\ v6 = none
           /\ \A k \in Sites \cup {none} : v3[k] # {} <=> k = First /\ group = "health"
    /\ open = "mail settings" =>
           ~v1.pass /\ IF group = "settings" THEN v11 = none /\ \A d \in Sites : v15[d] = 0
                                             ELSE v11 = First

MCSpec == MCInit /\ [][PagesNext]_<<open, group, pageVars>>

\* The exceptions a page notes are met one kind at a time: where two kinds were, or
\* nothing is left they do not excuse, TLC does not go on.
AtMostOne(p, q, r) == ~(p /\ q) /\ ~(p /\ r) /\ ~(q /\ r)
MCBound ==
    /\ open = "plugins" => ~(group = "wizard" /\ v14)                        \* stray
    /\ open = "php" => v10 # Sites /\ AtMostOne(v9 # {}, v10 # {}, FALSE)    \* missed, bare
    /\ open = "ssl" => AtMostOne(v14 # {}, v15, v16)                  \* met, unheard, left
    /\ open = "dns" => AtMostOne(v11 # {}, v12, v13)                  \* missed, met, lost

-----------------------------------------------------------------------------
\* What a page lists as fresh is what the server has: its answers, lost or late
\* as they are, leave no list, switch or status of before a change in the cache
\* (each with the exceptions named at its definition).
ListsAreTrue ==
    /\ open = "databases" => Db!DbListTrue
    /\ open = "backups" => Bk!NoGhostRow
    /\ open = "quick settings" => Qs!SwitchIsTrue
    /\ open = "domains" => Dm!DomainsListTrue
    /\ open = "email" => Em!MailListTrue
    /\ open = "cron" => Cn!CronListTrue
    /\ open = "plugins" => Pl!PluginsListTrue
    /\ open = "advisor" => Ai!ChatListTrue
    /\ open = "ssl" => Sl!CertListTrue
    /\ open = "node" => Na!AppConfigTrue
    /\ open = "two-factor" => Tf!TwoFactorStatusTrue
    /\ open = "dns" => Dn!DnsListTrue
    /\ open = "deploy" => Dp!DeployConfigTrue
    /\ open = "php" => Ph!IniShownTrue
    /\ open = "monitoring" => Mo!ChartsEndAtGauges
    /\ open = "mail settings" => Ml!MailSettingsTrue

\* What a page shows of a site, a session or a job is of the one picked, though it
\* was asked for when another was, and of one that has not been deleted.
ShownIsOfPicked ==
    /\ open = "installer" => In!RootOfPicked
    /\ open = "backups" => Bk!FilesOfPicked
    /\ open = "domains" => Dm!ReportOfSite
    /\ open = "cron" => Cn!SuggestionsOfSite
    /\ open = "advisor" => Ai!ShownSessionIsThere
    /\ open = "node" => Na!OutputOfPicked
    /\ open = "monitoring" => Mo!HealthOfPicked

\* What a form sends is what was read or typed for the thing it is sent to, though
\* the dialogs share their state and an answer may fill one that was opened since.
FormsKeepTheirOwn ==
    /\ open = "backups" => Bk!AddNeverOverwrites
    /\ open = "quick settings" => Qs!SavedToOwnSite /\ Qs!AppliedToOwnSite
    /\ open = "domains" => Dm!PhraseForThisDomain
    /\ open = "email" => Em!TypedForThisMailbox
    /\ open = "cron" => Cn!SavedToOwnJob
    /\ open = "plugins" => Pl!MigratesOwnSource
    /\ open = "ssl" => Sl!UploadedToOwnSite
    /\ open = "node" => Na!SavedToOwnApp
    /\ open = "deploy" => Dp!DeploysOwnRepository
    /\ open = "php" => Ph!SavedToOwnVersion

\* Work that must not overlap does not, and a control is busy as long as its work
\* is under way: polls that are lost and pages that are left change nothing of it.
OneAtATime ==
    /\ open = "installer" => In!OneInstall
    /\ open = "databases" => Db!OneImport
    /\ open = "backups" => Bk!OneOperation
    /\ open = "quick settings" => Qs!OneIssue
    /\ open = "domains" => Dm!BusyIsUnderWay
    /\ open = "advisor" => Ai!OneMessageAtATime
    /\ open = "ssl" => Sl!BarIsHonest
    /\ open = "stack" => Sk!OneScriptPerBundle
    /\ open = "php" => Ph!OneSync

\* A password, a secret or a code that is on show works, and so does the code of
\* the authenticator that was confirmed last.
ShownSecretsWork ==
    /\ open = "databases" => Db!RevealedWorks
    /\ open = "email" => Em!ShownPasswordWorks
    /\ open = "two-factor" =>
           Tf!ShownCodesWork /\ Tf!ShownSecretIsChecked /\ Tf!AuthenticatorWorks

\* The rows of the server tell what is so: which provider is the default, which
\* sites serve a certificate, which records the name server has, which commit is in
\* the document root, that an install told to stop did not succeed, and which settings
\* mail is sent with.
RowsAreTrue ==
    /\ open = "advisor" => Ai!OneDefaultProvider
    /\ open = "ssl" => Sl!FlaggedIsServed
    /\ open = "dns" => Dn!ZonesAreServed
    /\ open = "deploy" => Dp!LiveIsRecorded
    /\ open = "stack" => Sk!ToldNeverSucceeds
    /\ open = "mail settings" => Ml!MailCacheTrue /\ Ml!MailRecordsOnce

\* The editor of the web server file shows the file on disk.
VhostShowsDisk == open = "quick settings" => Qs!EditorShowsDisk
=============================================================================
