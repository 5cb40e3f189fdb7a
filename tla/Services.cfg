CONSTANTS
  ForHeld <- MCForHeld
  ForLost <- MCForLost
  ForFetch <- MCForFetch
  ForDog <- MCForDog
  ForSettling <- MCForSettling
  ForRevising <- MCForRevising
  ForWatch <- MCForWatch
  ForOverlap <- MCForOverlap
  ForSubscribe <- MCForSubscribe
  ForSending <- MCForSending
  ForDispatch <- MCForDispatch
  ForRevoke <- MCForRevoke
  ForCount <- MCForCount
  ForShared <- MCForShared
  ForEnrich <- MCForEnrich
  ForTx <- MCForTx
  ForAddress <- MCForAddress
  ForRate <- MCForRate
  ForLoad <- MCForLoad
  ForSearch <- MCForSearch
SPECIFICATION Spec
INVARIANTS
  TypeOK SingleWriter ResolvedIsComplete ExitsExactly PricesReconcile
  CrossingsMailed NewslettersWhole RevocationBinds PagesShare AnswersAgree ScreenIsTheRoute
PROPERTIES RevocationStands Progress
CHECK_DEADLOCK FALSE
