SPECIFICATION Spec
CONSTANTS
    Sites <- SomeSites
    Views <- SomeViews
    PlaneCentres <- SomeCentres
    VoxelSize = 8
    Width = 27
    GridSize = 8
    patch_size_half = 1
    ObsLimit = 3
    RefMin = 1
    ConvMin = 2
    Levels = 2
    MaxIterations = 2
    normal_en = TRUE
    raycast_en = TRUE
    inverse_composition_en = TRUE
    MaxMapPoints = 2
INVARIANTS RefPatchIsObservation ScannedIsRetrieved GainOfAcceptedState PatchesInImage
