------------------------------ MODULE WebPages ------------------------------
(***************************************************************************)
(* The pages of the web client (src/apps/web/app) and the components that  *)
(* act (src/apps/web/components): which queries a page shows, which        *)
(* mutations it offers and when the button is enabled, which stored row    *)
(* fills its form and how often, what its buttons open and where it leads. *)
(* A parameter of a route stands for one row, "id".  What only lays out,   *)
(* filters or words the data a page shows is left out.                     *)
(***************************************************************************)
EXTENDS WebHooks

Main == "main"     \* what a page shows when it is mounted; modals and wizard
                   \* steps are views of their own

(* A query shown in every view, or only in some.                           *)
Shown(queries)         == [query : queries, views : {{}}]
ShownIn(views, queries) == [query : queries, views : {views}]

(***************************************************************************)
(* A button that sends a mutation.  by: the useMutation it belongs to;     *)
(* again: enabled while that one is pending; at: the view the button is    *)
(* in; now: the view after the click, shift: after a success, errs: after  *)
(* a failure; leave: the page a success leads to; chains: the mutation a   *)
(* success may send; fills: the form takes the values of the answer.       *)
(***************************************************************************)
Keeps == ""
Offer(by, m) ==
  [by |-> by, does |-> m, again |-> FALSE, at |-> Main, now |-> Keeps,
   shift |-> Keeps, errs |-> Keeps, leave |-> Keeps, chains |-> {}, fills |-> FALSE]
Again(o)          == [o EXCEPT !.again = TRUE]
In(o, v)          == [o EXCEPT !.at = v]
Closing(o, v)     == [o EXCEPT !.now = v]
Then(o, v)        == [o EXCEPT !.shift = v]
Else(o, v)        == [o EXCEPT !.errs = v]
Leading(o, route) == [o EXCEPT !.leave = route]
Chaining(o, m)    == [o EXCEPT !.chains = {m}]
Filling(o)        == [o EXCEPT !.fills = TRUE]

(* A button that only changes the view, disabled while by is pending.      *)
Move(a, b, by) == [from |-> a, to |-> b, by |-> by]
Modal(v, by) == {Move(Main, v, Keeps), Move(v, Main, by)}

(***************************************************************************)
(* A form filled from a query: "once", when its data first come, or "each" *)
(* time they change; fills: the resources of which it takes the values.    *)
(***************************************************************************)
Form(query, when, fills) == [of |-> query.key, when |-> when, fills |-> fills]
NoForm == [of |-> <<>>, when |-> "never", fills |-> {}]

Page(shows, links) ==
  [shows |-> shows, needs |-> {}, form |-> NoForm, offers |-> {},
   moves |-> {}, links |-> links]
Needing(p, queries) == [p EXCEPT !.needs = {q.key : q \in queries}]
With(p, f)          == [p EXCEPT !.form = f]
Offering(p, offers) == [p EXCEPT !.offers = offers]
Moving(p, moves)    == [p EXCEPT !.moves = moves]

-----------------------------------------------------------------------------
(* Navigation of the workspace pages and of the super admin.               *)

WorkspaceNav == {"/dashboard", "/research", "/content/new", "/approval-queue",
                 "/templates", "/automations", "/autopilot", "/connections",
                 "/analytics"}

-----------------------------------------------------------------------------
(* Signing in, and entering a workspace.  The links between the pages of   *)
(* the first group, and the sign-up that needs no confirmation by mail,    *)
(* load the application anew and are left out.                             *)

LoginPage ==
  Offering(Page({}, {}),
    {Leading(Offer("login", signInWithPassword), "/workspace-select")})
SignupPage == Offering(Page({}, {}), {Then(Offer("sign up", signUp), "done")})
ForgotPasswordPage ==
  Offering(Page({}, {}), {Then(Offer("recover", resetPasswordForEmail), "sent")})

(* The link is checked when the page is mounted.                           *)
ResetPasswordPage ==
  Moving(Offering(Page({}, {}),
      {Leading(In(Offer("set password", updateUser), "valid"), "/dashboard")}),
    {Move(Main, "valid", Keeps), Move(Main, "invalid", Keeps)})

WorkspaceSelectPage ==
  Page(Shown({useAuthMe}), {"/dashboard", "/onboarding/create"})

CreateWorkspacePage ==
  Offering(Page({}, {}),
    {Leading(Offer("create workspace", createWorkspace), "/onboarding/brand")})

(* The upload buttons of the third and fourth steps; deleting a reference  *)
(* image is not disabled while a deletion is pending.                      *)
Step3Visual(v) == {In(Offer("logo", useUploadLogo), v)}
Step4ImageSource(v) ==
  {In(Offer("upload references", useUploadReferenceImages), v),
   Again(In(Offer("delete reference", useDeleteReferenceImage), v))}
WizardNav(steps) ==
  UNION {{Move(steps[i], steps[i + 1], "save"), Move(steps[i + 1], steps[i], "save")} :
         i \in 1..(Len(steps) - 1)}

(* Niche, tone and image source start from the stored kit, the competitors,*)
(* the palette and the font from INITIAL_STATE: all are saved.             *)
OnboardingBrandPage ==
  LET steps == <<Main, "voice", "visual", "images">> IN
  Moving(With(Offering(Page(Shown({useBrandKit}), {}),
      {Leading(In(Offer("save", useUpdateBrandKit), "images"),
               "/onboarding/templates")}
      \cup Step3Visual("visual") \cup Step4ImageSource("images")),
    Form(useBrandKit, "once", {"voice"})),
    WizardNav(steps))

OnboardingTemplatesPage ==
  Page(Shown({useTemplates("system")}), {"/dashboard"})

(* Dismissing the tour sends the request; the card is gone at once.        *)
ProductTour == {Closing(Offer("tour seen", useMarkProductTourSeen), "dismissed")}

OnboardingChecklist == {useOnboardingProgress}

DashboardPage ==
  Offering(Needing(
    Page(Shown(OnboardingChecklist \cup {useProductTourStatus}),
         WorkspaceNav \cup {"/help"}),
    {useProductTourStatus}), ProductTour)

-----------------------------------------------------------------------------
(* Templates.                                                              *)

TemplatesPage ==
  Page(Shown({useTemplates("system"), useTemplates("own")}),
       WorkspaceNav \cup {"/templates/import", "/templates/id/edit"})

ImportTemplatePage ==
  Offering(Page({}, WorkspaceNav),
    {Leading(Offer("import", useImportTemplate), "/templates/id/edit")})

TemplateEditPage ==
  Offering(With(Needing(Page(Shown({useTemplate}), WorkspaceNav), {useTemplate}),
                Form(useTemplate, "once", {"slotMap"})),
    {Offer("save", useUpdateTemplate)})

-----------------------------------------------------------------------------
(* The content editor.  The first click on a template creates the piece,   *)
(* the next ones change its template; neither is disabled while pending.   *)

TemplateSelector == {useTemplates("system"), useTemplates("own")}

ImageSourceSelector(v) ==
  {Again(In(Offer("picture", useUpdateContentSlide), v)),
   In(Offer("upload", useUploadSlideImage), v),
   Chaining(In(Offer("generate", useGenerateAndEvaluateImage), v),
            useUpdateContentSlide)}

(* onBlur sends the text of the box, filled when the slide is mounted.     *)
SlideEditor(v) ==
  {Again(In(Offer("text", useUpdateContentSlideText), v))}
    \cup ImageSourceSelector(v)

PreviewPane(v) == {In(Offer("render", useRenderContentPiece), v)}

NewContentPage ==
  With(Offering(
    Page(Shown(TemplateSelector)
           \cup ShownIn({"piece"}, {useContentPiece, useStockImagesStatus,
                                    useStockImageSearch}),
         WorkspaceNav),
    {Again(Then(Offer("create piece", useCreateContentPiece), "piece")),
     Again(In(Offer("template", useUpdateContentPieceTemplate), "piece"))}
    \cup SlideEditor("piece") \cup PreviewPane("piece")),
    Form(useContentPiece, "once", {"slide-text"}))

-----------------------------------------------------------------------------
(* The approval queue.  Every card has its own two mutations, so that      *)
(* another card can be judged while one is pending.                        *)

RejectModal == Modal("reject", "reject")

(* The card leaves the list with the click, and its modal with it.         *)
ApprovalCard ==
  {Again(Offer("approve", useApprovePiece)),
   Again(Closing(In(Offer("reject", useRejectPiece), "reject"), Main))}

ApprovalQueuePage ==
  Moving(Offering(Needing(
    Page(Shown({useApprovalQueue, useAuthMe}), WorkspaceNav),
    {useApprovalQueue}), ApprovalCard), RejectModal)

-----------------------------------------------------------------------------
(* Research, connections and analytics.                                    *)

(* Busy from the click to the end of the polling.                          *)
ScanButton == {Then(Offer("scan", useScanInsights), "polling")}

ResearchPage ==
  Moving(Offering(Needing(
    Page(Shown({useResearchInsights, useBrandKit}), WorkspaceNav),
    {useBrandKit}), ScanButton), {Move("polling", Main, Keeps)})

DisconnectConfirmModal == Modal("disconnect", "disconnect")

(* Both connect buttons and every expired card open the same popup; when   *)
(* it closes, accounts of Meta are synchronized and the list is loaded.    *)
useConnectFlow == {Again(Offer("sync", useSyncSocialAccounts))}

ConnectionsPage ==
  Moving(Offering(Page(Shown({useSocialAccounts}), WorkspaceNav),
    {Then(In(Offer("disconnect", useDisconnectSocialAccount), "disconnect"),
          Main)} \cup useConnectFlow),
    DisconnectConfirmModal)

AnalyticsPage ==
  Page(Shown({useAnalyticsSummary, useAnalyticsRanking}), WorkspaceNav)

-----------------------------------------------------------------------------
(* Automations.  Without the add-on only the offer to buy it is shown;     *)
(* which of the two views it is follows the loaded add-ons.                *)

UpsellCard == {Then(Offer("subscribe", useSubscribeAddon), "requested")}

AutomationsPage ==
  Moving(Offering(Needing(
    Page(Shown({useAddons}) \cup ShownIn({"flows"}, {useAutomations}),
         WorkspaceNav \cup {"/automations/new", "/automations/id"}),
    {useAddons}), UpsellCard),
    {Move(Main, "flows", Keeps), Move("requested", "flows", Keeps),
     Move("flows", Main, Keeps)})

NewAutomationPage ==
  Offering(Needing(Page(Shown({useSocialAccounts}), WorkspaceNav),
                   {useSocialAccounts}),
    {Leading(Offer("create", useCreateAutomation), "/automations/id")})

(* Saving and switching on or off share one useMutation.                   *)
AutomationDetailPage ==
  Offering(With(Needing(
      Page(Shown({useAutomationDetail, useSocialAccounts}), WorkspaceNav),
      {useAutomationDetail}),
    Form(useAutomationDetail, "each", {"flow"})),
    {Offer("update", useUpdateAutomation),
     Offer("update", useUpdateAutomationActive)})

-----------------------------------------------------------------------------
(* The autopilot.  Switching on asks for a confirmation, which closes with *)
(* the answer, whatever it is.                                             *)

ActivationToggle ==
  {Offer("toggle", useToggleAutopilot),
   Else(Then(In(Offer("toggle", useToggleAutopilot), "confirming"), Main), Main)}

AutopilotPage ==
  Moving(With(Offering(Needing(
      Page(Shown({useAutopilot, useAutopilotRuns}), WorkspaceNav),
      {useAutopilot}),
    ActivationToggle \cup {Offer("save", useUpdateAutopilot)}),
    Form(useAutopilot, "once", {"autopilot"})),
    {Move(Main, "confirming", "toggle"), Move("confirming", Main, "toggle")})

-----------------------------------------------------------------------------
(* The platform's super admin.  Every page needs the answer of auth-me.    *)

ProvisionWorkspaceModal ==
  {Then(In(Offer("provision", useProvisionWorkspace), "provision"), "provisioned")}
SuspendConfirmModal ==
  {Then(In(Offer("suspend", useSuspendWorkspace), "suspend"), Main)}
WorkspaceTable ==
  {Offer("reactivate", useReactivateWorkspace),
   Offer("impersonate", useImpersonateWorkspace)} \cup SuspendConfirmModal

MasterPanelPage ==
  Moving(Offering(Needing(
    Page(Shown({useAuthMe, usePlatformWorkspaces}),
         {"/system-health", "/funnel", "/system-prompts", "/help-center"}),
    {useAuthMe, usePlatformWorkspaces}),
    WorkspaceTable \cup ProvisionWorkspaceModal),
    Modal("provision", "provision") \cup Modal("suspend", "suspend")
      \cup {Move("provisioned", Main, Keeps)})

SystemPromptsPage ==
  Page(Shown({useAuthMe, useSystemPrompts}), {"/system-prompts/key"})

(* The draft can be saved after a test, until it is edited again.          *)
PromptTestPanel ==
  {Then(Offer("test", useTestPrompt), "tested"), In(Offer("test", useTestPrompt), "tested")}
(* A rollback fills the draft with the version that is current again.      *)
VersionHistoryList ==
  {Filling(Then(Offer("rollback", useRollbackPrompt), Main)),
   Filling(Then(In(Offer("rollback", useRollbackPrompt), "tested"), Main))}

SystemPromptEditorPage ==
  Moving(With(Offering(Needing(
      Page(Shown({useAuthMe, useSystemPrompt, usePromptVersions}),
           {"/system-prompts"}),
      {useAuthMe, useSystemPrompt}),
    PromptTestPanel \cup VersionHistoryList
      \cup {Then(In(Offer("save", useUpdatePrompt), "tested"), Main)}),
    Form(useSystemPrompt, "each", {"prompt"})),
    {Move("tested", Main, Keeps)})

SystemHealthPage == Page(Shown({useAuthMe, useSystemHealth}), {})
FunnelPage       == Page(Shown({useAuthMe, useFunnel, useFunnelByUtm}), {})

-----------------------------------------------------------------------------
(* Help center: the admin's lists and editors, and the public pages.       *)

HelpCenterAdminPage ==
  Offering(Needing(
    Page(Shown({useAuthMe, useAdminArticles, useAdminChangelog}),
         {"/help-center/articles/id/edit", "/help-center/changelog/id/edit"}),
    {useAuthMe}),
    {Offer("create article", useCreateArticle),
     Again(Offer("delete article", useDeleteArticle)),
     Offer("create entry", useCreateChangelogEntry),
     Again(Offer("delete entry", useDeleteChangelogEntry))})

EditHelpArticlePage ==
  Offering(With(Needing(Page(Shown({useAuthMe, useAdminArticle}), {"/help-center"}),
                        {useAuthMe, useAdminArticle}),
                Form(useAdminArticle, "each", {"article"})),
    {Leading(Offer("save", useUpdateArticle), "/help-center"),
     Again(Leading(Offer("delete", useDeleteArticle), "/help-center"))})

EditChangelogEntryPage ==
  Offering(With(Needing(Page(Shown({useAuthMe, useAdminChangelogEntry}),
                             {"/help-center"}),
                        {useAuthMe, useAdminChangelogEntry}),
                Form(useAdminChangelogEntry, "each", {"entry"})),
    {Leading(Offer("save", useUpdateChangelogEntry), "/help-center"),
     Again(Leading(Offer("delete", useDeleteChangelogEntry), "/help-center"))})

HelpPage == Page(Shown({usePublishedArticles}), {"/help/slug", "/changelog"})
HelpArticlePage == Page(Shown({usePublishedArticle}), {"/help"})
ChangelogPage   == Page(Shown({usePublishedChangelog}), {"/help"})

-----------------------------------------------------------------------------
Pages ==
  ("/login"              :> LoginPage) @@
  ("/signup"             :> SignupPage) @@
  ("/forgot-password"    :> ForgotPasswordPage) @@
  ("/reset-password"     :> ResetPasswordPage) @@
  ("/workspace-select"   :> WorkspaceSelectPage) @@
  ("/onboarding/create"  :> CreateWorkspacePage) @@
  ("/onboarding/brand"   :> OnboardingBrandPage) @@
  ("/onboarding/templates" :> OnboardingTemplatesPage) @@
  ("/dashboard"          :> DashboardPage) @@
  ("/templates"          :> TemplatesPage) @@
  ("/templates/import"   :> ImportTemplatePage) @@
  ("/templates/id/edit"  :> TemplateEditPage) @@
  ("/content/new"        :> NewContentPage) @@
  ("/approval-queue"     :> ApprovalQueuePage) @@
  ("/research"           :> ResearchPage) @@
  ("/connections"        :> ConnectionsPage) @@
  ("/analytics"          :> AnalyticsPage) @@
  ("/automations"        :> AutomationsPage) @@
  ("/automations/new"    :> NewAutomationPage) @@
  ("/automations/id"     :> AutomationDetailPage) @@
  ("/autopilot"          :> AutopilotPage) @@
  ("/master-panel"       :> MasterPanelPage) @@
  ("/system-prompts"     :> SystemPromptsPage) @@
  ("/system-prompts/key" :> SystemPromptEditorPage) @@
  ("/system-health"      :> SystemHealthPage) @@
  ("/funnel"             :> FunnelPage) @@
  ("/help-center"        :> HelpCenterAdminPage) @@
  ("/help-center/articles/id/edit"  :> EditHelpArticlePage) @@
  ("/help-center/changelog/id/edit" :> EditChangelogEntryPage) @@
  ("/help"               :> HelpPage) @@
  ("/help/slug"          :> HelpArticlePage) @@
  ("/changelog"          :> ChangelogPage)

Routes == DOMAIN Pages

(* Every link and every redirection leads to a page.                       *)
ASSUME PagesAssumption ==
  \A r \in Routes :
    /\ Pages[r].links \subseteq Routes
    /\ \A o \in Pages[r].offers : o.leave # Keeps => o.leave \in Routes
=============================================================================
