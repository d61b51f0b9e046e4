SPECIFICATION DeskSpec
CONSTANTS
  Days = {1, 2}
  Amounts = {0, 1, 2}
  Methods = {pix}
  Nobody = Nobody
  Callers = {p1, p2}
  Today = 1
  Drafts <- SmallDrafts
  Patches <- SmallPatches
  MaxIds = 2
  MaxCalls = 3
  PageSize = 1
  PageLimit = 1
  pix = pix
  p1 = p1
  p2 = p2
  DefaultCategories <- TwoDefaults
  AskedCategories <- SomeCategories
  Months = {7}
  Targets <- SomeTargets
  MaxUserCategories = 3
  NameSlugs = {1, 2, 3, 4}
  Tokens <- TheTokens
  NoSlug = NoSlug
  Values = {0, 1}
  MaxShown = 2
  MaxLines = 3
  MaxTells = 3
  Buyers = {1, 2}
  SignedAmounts <- SomeSigned
  MaxAmount = 2
  MaxDetail = 1
  t1 = t1
  t2 = t2
  Tools = {t1, t2}
  MadeUp = MadeUp
  Blank = {2}
  ShortTermLimit = 2
  MaxToolRounds = 2
  MaxMessages = 3
  MaxTries = 2
  MaxCallsAtOnce = 2
INVARIANTS TableInv PagesShowOnce ViewsAgree CatalogInv NamesInv StatementInv StatementShowsOnce ConversationInv EveryCallIsAnswered
PROPERTIES ImplementsBook LossNeedsConcurrency
SYMMETRY Symmetry
CHECK_DEADLOCK FALSE
