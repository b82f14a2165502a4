\* As many attacks as the player likes; two lucky kills, so that one may follow
\* the other at once.
SPECIFICATION GameLiveSpec
CONSTANTS
    MaxEvents = 2
CHECK_DEADLOCK FALSE
INVARIANTS
    GameTypeOK
    SleepsOnlyWhileNeeded
    NoMoreAttacksThanAsked
    AtMostOneExchangeAfterQuit
PROPERTIES
    AttackCallReturns
    QuitEnds
    ShownAgainOnlyAfterAttack
    BroadcastIsShown
    VictoryIsShown
    ResultIsNotOlder
