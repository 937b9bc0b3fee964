------------------------------ MODULE WebHooks ------------------------------
(***************************************************************************)
(* The data hooks of the web client (src/apps/web/hooks): what each query  *)
(* reads and under which key the answer is cached, what each mutation      *)
(* writes, and what its success, its failure and its settling do to the    *)
(* cache.  The stored data are split into resources, the finest parts that *)
(* some save overwrites as a whole.                                        *)
(***************************************************************************)
EXTENDS SequencesExt

(***************************************************************************)
(* useQuery: the key under which the answer is cached and the resources    *)
(* the answer is made of.                                                  *)
(***************************************************************************)
Query(key, reads) == [key |-> key, reads |-> reads]

(***************************************************************************)
(* useMutation.  kind: the request "adds" its edit to what is stored, or   *)
(* replaces the "whole" resource with what the form holds, or is answered  *)
(* before the edit is made ("later").  puts: setQueryData with the answer; *)
(* guesses: the onMutate that cancels, remembers and edits a query, undone *)
(* by onError; refresh: the keys invalidated onSuccess, or also after a    *)
(* failure when settled; makes: the key of a row the answer is the first   *)
(* to name.                                                                *)
(***************************************************************************)
Mutation(on, kind) ==
  [on |-> on, kind |-> kind, puts |-> <<>>, guesses |-> <<>>, makes |-> <<>>,
   refresh |-> {}, settled |-> FALSE]

Refreshing(m, keys) == [m EXCEPT !.refresh = keys]
Settling(m, keys)   == [m EXCEPT !.refresh = keys, !.settled = TRUE]
Putting(m, key)     == [m EXCEPT !.puts = key]
Guessing(m, key)    == [m EXCEPT !.guesses = key]
Making(m, key)      == [m EXCEPT !.makes = key]

Adds(on)  == Mutation({on}, "adds")
Saves(on) == Mutation({on}, "whole")
Later(on) == Mutation({on}, "later")

-----------------------------------------------------------------------------
(* Session and workspace.                                                  *)

useAuthMe == Query(<<"auth-me">>, {"memberships"})

useProductTourStatus == Query(<<"product-tour", "ws">>, {"tour"})
useMarkProductTourSeen ==
  Refreshing(Adds("tour"), {<<"product-tour", "ws">>})
useOnboardingProgress ==
  Query(<<"onboarding-progress", "ws">>, {"accounts", "autopilot"})

(* Requests that their pages send without a hook: to the authentication    *)
(* service, and POST /workspaces.                                          *)
signInWithPassword    == Adds("session")
signUp                == Adds("users")
resetPasswordForEmail == Adds("recovery-mails")
updateUser            == Adds("password")
createWorkspace       == Adds("memberships")

-----------------------------------------------------------------------------
(* Brand kit: every answer is the whole row and is put into the cache.     *)

BrandKitKey == <<"brand-kit">>
useBrandKit == Query(BrandKitKey, {"voice", "style", "brand-images"})
useUpdateBrandKit ==
  Putting(Mutation({"voice", "style"}, "whole"), BrandKitKey)
useUploadLogo            == Putting(Adds("brand-images"), BrandKitKey)
useUploadReferenceImages == Putting(Adds("brand-images"), BrandKitKey)
useDeleteReferenceImage  == Putting(Adds("brand-images"), BrandKitKey)

-----------------------------------------------------------------------------
(* Templates.  The lists are keyed by source and format, one template by   *)
(* its id, all under "templates".                                          *)

useTemplates(source) == Query(<<"templates", source>>, {"templates", "slotMap"})
TemplateKey == <<"templates", "id">>
useTemplate == Query(TemplateKey, {"slotMap"})
useUpdateTemplate ==
  Refreshing(Putting(Saves("slotMap"), TemplateKey), {<<"templates">>})
useImportTemplate ==
  Making(Refreshing(Adds("templates"), {<<"templates">>}), TemplateKey)

-----------------------------------------------------------------------------
(* Content pieces, their slides and the images put into them.              *)

PieceKey == <<"content-pieces", "id">>
useContentPiece       == Query(PieceKey, {"piece", "slides", "slide-text"})
useCreateContentPiece == Making(Adds("piece"), PieceKey)
useUpdateContentPieceTemplate == Refreshing(Adds("piece"), {PieceKey})
useUpdateContentSlide == Refreshing(Adds("slides"), {PieceKey})
(* The same hook with only slideText in the request.                       *)
useUpdateContentSlideText == Refreshing(Saves("slide-text"), {PieceKey})
useUploadSlideImage   == Refreshing(Adds("slides"), {PieceKey})
useRenderContentPiece == Refreshing(Adds("piece"), {PieceKey})

useStockImagesStatus == Query(<<"image-sources", "status">>, {})
useStockImageSearch  == Query(<<"image-sources", "stock">>, {})

(* POST the job, then its judgement; the picture reaches the slide by a    *)
(* later update of the slide, which the page sends.                        *)
useGenerateAndEvaluateImage == Adds("image-jobs")

-----------------------------------------------------------------------------
(* The approval queue: the card leaves the list before the server answers. *)

QueueKey == <<"content-pieces", "pending_approval">>
useApprovalQueue == Query(QueueKey, {"queue"})
useApprovePiece  == Settling(Guessing(Adds("queue"), QueueKey), {QueueKey})
useRejectPiece   == Settling(Guessing(Adds("queue"), QueueKey), {QueueKey})

-----------------------------------------------------------------------------
(* Research, connections, add-ons, automations and the autopilot.          *)

InsightsKey == <<"research-insights">>
useResearchInsights == Query(InsightsKey, {"insights"})
useScanInsights     == Refreshing(Later("insights"), {InsightsKey})

AccountsKey == <<"social-accounts">>
useSocialAccounts     == Query(AccountsKey, {"accounts"})
useSyncSocialAccounts == Settling(Adds("accounts"), {AccountsKey})
useDisconnectSocialAccount ==
  Settling(Guessing(Adds("accounts"), AccountsKey), {AccountsKey})

AddonsKey == <<"addons">>
useAddons         == Query(AddonsKey, {"addons"})
useSubscribeAddon == Settling(Later("addons"), {AddonsKey})

AutomationsKey == <<"automations">>
useAutomations == Query(AutomationsKey, {"flows", "flow", "flow-active"})
FlowKey == AutomationsKey \o <<"id">>
useAutomationDetail == Query(FlowKey, {"flow", "flow-active"})
useCreateAutomation ==
  Making(Settling(Adds("flows"), {AutomationsKey}), FlowKey)
useUpdateAutomation == Settling(Saves("flow"), {AutomationsKey})
(* The same hook with only isActive in the request.                        *)
useUpdateAutomationActive == Settling(Adds("flow-active"), {AutomationsKey})

AutopilotKey == <<"autopilot">>
useAutopilot       == Query(AutopilotKey, {"autopilot", "autopilot-active"})
useUpdateAutopilot == Putting(Saves("autopilot"), AutopilotKey)
useToggleAutopilot == Putting(Adds("autopilot-active"), AutopilotKey)
useAutopilotRuns   == Query(<<"autopilot", "runs">>, {"runs"})

useAnalyticsSummary == Query(<<"analytics", "summary">>, {"metrics"})
useAnalyticsRanking == Query(<<"analytics", "ranking">>, {"metrics"})

-----------------------------------------------------------------------------
(* The platform's super admin.                                             *)

WorkspacesKey == <<"platform-admin", "workspaces">>
usePlatformWorkspaces  == Query(WorkspacesKey, {"workspaces"})
useProvisionWorkspace  == Refreshing(Adds("workspaces"), {WorkspacesKey})
useSuspendWorkspace    == Refreshing(Adds("workspaces"), {WorkspacesKey})
useReactivateWorkspace == Refreshing(Adds("workspaces"), {WorkspacesKey})
useImpersonateWorkspace == Adds("impersonations")

PromptsKey == <<"platform-admin", "system-prompts">>
PromptKey  == PromptsKey \o <<"key">>
useSystemPrompts  == Query(PromptsKey, {"prompt"})
useSystemPrompt   == Query(PromptKey, {"prompt"})
usePromptVersions == Query(PromptKey \o <<"versions">>, {"prompt"})
useUpdatePrompt   == Refreshing(Saves("prompt"), {PromptKey, PromptsKey})
useRollbackPrompt == Refreshing(Adds("prompt"), {PromptKey, PromptsKey})
useTestPrompt     == Adds("prompt-tests")

useSystemHealth == Query(<<"platform-admin", "system-health">>, {"health"})
useFunnel       == Query(<<"platform-admin", "funnel", "from">>, {"funnel"})
useFunnelByUtm  == Query(<<"platform-admin", "funnel", "by-utm">>, {"funnel"})

-----------------------------------------------------------------------------
(* Help center.  The public lists and the admin lists have keys of their   *)
(* own, and a write refreshes only the admin's.                            *)

usePublishedArticles  == Query(<<"help-articles", "q">>, {"articles", "article"})
usePublishedArticle   == Query(<<"help-articles", "slug">>, {"article"})
usePublishedChangelog == Query(<<"changelog">>, {"changelog", "entry"})

AdminArticlesKey == <<"platform-admin", "help-articles">>
useAdminArticles == Query(AdminArticlesKey, {"articles", "article"})
useAdminArticle  == Query(AdminArticlesKey \o <<"id">>, {"article"})
useCreateArticle == Refreshing(Adds("articles"), {AdminArticlesKey})
useUpdateArticle == Refreshing(Saves("article"), {AdminArticlesKey})
useDeleteArticle == Refreshing(Adds("articles"), {AdminArticlesKey})

AdminChangelogKey == <<"platform-admin", "changelog">>
useAdminChangelog       == Query(AdminChangelogKey, {"changelog", "entry"})
useAdminChangelogEntry  == Query(AdminChangelogKey \o <<"id">>, {"entry"})
useCreateChangelogEntry == Refreshing(Adds("changelog"), {AdminChangelogKey})
useUpdateChangelogEntry == Refreshing(Saves("entry"), {AdminChangelogKey})
useDeleteChangelogEntry == Refreshing(Adds("changelog"), {AdminChangelogKey})
=============================================================================
