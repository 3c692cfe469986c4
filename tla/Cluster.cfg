SPECIFICATION Spec
CONSTANTS
    Setups <- MC_Setups
    Regions <- MC_Regions
    MaxDown = 2
    MaxUp = 1
    MaxRefused = 2
    Top = 7
INVARIANTS AnsweredExactlyOnce NoCrash FoundAsAnswered NeitherLostNorDoubled TriedInTurn RightStripe HealMakesNamespace ListedOnce LayoutSound
CHECK_DEADLOCK FALSE
