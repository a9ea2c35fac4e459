SPECIFICATION Spec
CONSTANT Networks <- ThreeInterfaces
PROPERTY TablesGetPopulated
