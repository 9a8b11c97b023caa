CONSTANTS
  Graph <- MCGraph
  Plans <- MCPlans
  Workflows <- MCWorkflows
  Recipes <- MCRecipes
  AddonPrefix <- MCAddonPrefix
  Prompts <- MCPrompts
SPECIFICATION PromptSpec
INVARIANTS
  PrerequisitesFirst
  KeepsPlanOrder
  ReadsAreInOrder
  RecipesAreHonoured
  AddonsFollowTheirPoint
  RecipesReplay
