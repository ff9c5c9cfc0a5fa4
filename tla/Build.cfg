\* Every small graph of recipes, every small root file system, builds that sign two images, and
\* rebuilds, failing tasks and wic run alone, over small layouts.
SPECIFICATION BuildSpec
CONSTANTS
  Machines = {"m1"}
  Images = {"i1", "i2"}
  MaxBuilds = 3
  app = app  lib = lib  base = base  virtual = virtual  host = host  tool = tool
  NoRecipe = NoRecipe
  Names <- MCNames
  Recipes <- MCRecipes
  Root = app
  ASSUME_PROVIDED = {host}
  KNOWN_BUILD_TOOLS = {tool}
  SKIP_BUILD_TOOLS = TRUE
  Worlds <- MCWorlds
  Moved <- MCMoved
  VarOther = {"var/sota", "var/spool"}
  Setups <- MCSetups
  Unset = Unset
  FileBlocks = 2
  BOOTDD_EXTRA_SPACE = 4
INVARIANTS Verifies FileComplete BootMatchesRoot EspContent BlocksFit LostReported LinksResolve
PROPERTIES KeysStay FindsClosure Outcome
CHECK_DEADLOCK FALSE
