SPECIFICATION Spec

CONSTANTS
    Actors = {a1, a2}
    ThreadChoices = {{}, {t1}, {t2}, {t1, t2}}
    Main = Main
    NoActor = NoActor
    MaxSteps = 2
    MaxFrames = 2
    MaxEvents = 2

SYMMETRY Symmetry
CHECK_DEADLOCK FALSE

INVARIANTS
    WorkersAreInWhenLockIsAskedUnlessWoken
    TeleportsAreKept
    DisplacementsCountOnce
    WorldHoldsLivingActors
    SchedulerGoesOnUnlessWoken

PROPERTIES
    EveryActorMovesOncePerStep
    BufferFilledIsFree
