------------------------------- MODULE Routes -------------------------------
(***************************************************************************)
(* Who may call which handler of the REST interface.  JwtAuthGuard and     *)
(* RolesGuard stand before every handler: @Public() lifts the first, the   *)
(* roles of @Roles() on the handler, or else on its controller, are what   *)
(* the second asks for.  A handler's audience is the set of the roles that *)
(* pass both; a caller without a token has the role NONE.  One table for   *)
(* a controller, by the names of its methods.                              *)
(***************************************************************************)

Roles       == {"USER", "ADMIN", "SUPER_ADMIN"}
Anyone      == Roles \cup {"NONE"}
SignedIn    == Roles
Admins      == {"ADMIN", "SUPER_ADMIN"}
SuperAdmins == {"SUPER_ADMIN"}

\* @Public() handlers of AuthController ...
AccountRoutes ==
  [register |-> Anyone, login |-> Anyone, refreshTokens |-> Anyone,
   forgotPassword |-> Anyone, resetPassword |-> Anyone, verifyEmail |-> Anyone]

\* ... and the others.
SessionRoutes ==
  [logout |-> SignedIn, changePassword |-> SignedIn, getSessions |-> SignedIn,
   revokeSession |-> SignedIn, getMe |-> SignedIn]

UsersRoutes ==
  [findAll |-> Admins, findOne |-> Admins, create |-> SuperAdmins,
   update |-> Admins, remove |-> SuperAdmins, restore |-> SuperAdmins]

MessagingRoutes ==
  [findAllProviders |-> SignedIn, findProviderById |-> SignedIn,
   createProvider |-> Admins, updateProvider |-> Admins,
   removeProvider |-> SuperAdmins, configureProvider |-> SignedIn,
   getProviderConfig |-> SignedIn, getMyProviderConfigs |-> SignedIn,
   sendMessage |-> SignedIn, verifyWebhook |-> Anyone,
   processWebhook |-> Anyone]

ContactsRoutes ==
  [findAll |-> SignedIn, findOne |-> SignedIn, create |-> SignedIn,
   update |-> SignedIn, remove |-> SignedIn, importContacts |-> SignedIn,
   optIn |-> SignedIn, optOut |-> SignedIn]

ConversationsRoutes ==
  [findAll |-> SignedIn, findOne |-> SignedIn, getMessages |-> SignedIn,
   close |-> SignedIn, reopen |-> SignedIn, archive |-> SignedIn,
   markAsRead |-> SignedIn, assign |-> SignedIn]

CampaignsRoutes ==
  [findAll |-> SignedIn, findOne |-> SignedIn, create |-> SignedIn,
   update |-> SignedIn, remove |-> SignedIn, addRecipients |-> SignedIn,
   getRecipients |-> SignedIn, start |-> SignedIn, pause |-> SignedIn,
   cancel |-> SignedIn, getStats |-> SignedIn]

TemplatesRoutes ==
  [findAll |-> SignedIn, findOne |-> SignedIn, create |-> Admins,
   update |-> Admins, remove |-> Admins, submitForApproval |-> Admins]

WebhooksRoutes ==
  [findAll |-> Admins, findOne |-> Admins, getLogs |-> Admins,
   create |-> Admins, update |-> Admins, remove |-> SuperAdmins]

WebhookEventsRoutes ==
  [findAll |-> Admins, getStats |-> Admins, findOne |-> Admins,
   reprocess |-> Admins]

FeatureFlagsRoutes ==
  [findAll |-> Admins, check |-> SignedIn, findOne |-> Admins,
   create |-> SuperAdmins, update |-> Admins, toggle |-> Admins,
   remove |-> SuperAdmins]

SettingsRoutes ==
  [findAll |-> Admins, findPublic |-> SignedIn, findOne |-> Admins,
   create |-> SuperAdmins, update |-> SuperAdmins, remove |-> SuperAdmins,
   getUserPreferences |-> SignedIn, getUserPreference |-> SignedIn,
   setUserPreference |-> SignedIn, deleteUserPreference |-> SignedIn]

NotificationsRoutes ==
  [findAll |-> SignedIn, getUnreadCount |-> SignedIn, create |-> Admins,
   markAsRead |-> SignedIn, markAllAsRead |-> SignedIn]

MediaRoutes ==
  [findAll |-> SignedIn, findOne |-> SignedIn, findByMessage |-> SignedIn,
   upload |-> SignedIn, remove |-> SignedIn]

FilesRoutes ==
  [findAll |-> SignedIn, findOne |-> SignedIn, upload |-> SignedIn,
   remove |-> SignedIn]

AuditRoutes == [findAll |-> Admins, findOne |-> Admins]

ApiKeysRoutes ==
  [findAll |-> SignedIn, create |-> SignedIn, revoke |-> SignedIn,
   remove |-> SignedIn]

BillingRoutes ==
  [getUsage |-> SignedIn, getSummary |-> SignedIn, getByChannel |-> SignedIn]

AnalyticsRoutes ==
  [getDashboard |-> SignedIn, getMessageStats |-> SignedIn,
   getMessageVolume |-> SignedIn, getProviderHealth |-> SignedIn,
   getContactStats |-> SignedIn]

HealthRoutes == [check |-> Anyone, ping |-> Anyone]

AudiencesOf(routes) == {routes[h] : h \in DOMAIN routes}

\* The audiences that some handler has.
Audiences ==
  UNION {AudiencesOf(AccountRoutes), AudiencesOf(SessionRoutes),
         AudiencesOf(UsersRoutes), AudiencesOf(MessagingRoutes),
         AudiencesOf(ContactsRoutes), AudiencesOf(ConversationsRoutes),
         AudiencesOf(CampaignsRoutes), AudiencesOf(TemplatesRoutes),
         AudiencesOf(WebhooksRoutes), AudiencesOf(WebhookEventsRoutes),
         AudiencesOf(FeatureFlagsRoutes), AudiencesOf(SettingsRoutes),
         AudiencesOf(NotificationsRoutes), AudiencesOf(MediaRoutes),
         AudiencesOf(FilesRoutes), AudiencesOf(AuditRoutes),
         AudiencesOf(ApiKeysRoutes), AudiencesOf(BillingRoutes),
         AudiencesOf(AnalyticsRoutes), AudiencesOf(HealthRoutes)}
=============================================================================
